---- MODULE Spec2Model ----
(***************************************************************************)
(* A model of the shader-input encoding engine of amethyst_renderer        *)
(* (src/amethyst_renderer/src/encoding).                                   *)
(*                                                                         *)
(* The module holds several specifications over one set of variables, one  *)
(* per part of the engine:                                                 *)
(*   SpecMatch  try_match_props, the claim step of one encoder             *)
(*   SpecCover  EncoderStorage: registration and encoders_for_props        *)
(*   Spec       batching and instance write indices of a query:            *)
(*              EncodingQuery::encode and EvaluatedQuery::encode (query.rs)*)
(*   SpecFrames the frames of a query when the storage cannot serve every  *)
(*              layout: the skipped pipelines and the warnings             *)
(*   SpecSystem batching and instance writes of the per-pipeline systems:  *)
(*              DataDrivenRenderGroup::prepare (render_group.rs) and       *)
(*              PipelineEncodingSystem::run (renderable.rs)                *)
(*   SpecBuffer the strided writers of a buffer: EncodeBufferBuilder, its  *)
(*              writers and their writes (buffer.rs)                       *)
(*   SpecStrides EncodeBufferBuilder::create over any layout and buffer    *)
(*   SpecResolver the resolve passes of ResolverCacheLayer (resolver.rs)   *)
(*   SpecEnsure ensure_buffer (renderable.rs)                              *)
(*   SpecAccess the resource access EncodersDataAccessor declares          *)
(*   SpecEncode the dynamic encoders: LazyFetch and the encode loops of    *)
(*              the looping encoders (dyn_encoder.rs, looping_encoder.rs)  *)
(*   SpecEntities the entity set of an EncoderPipeline (renderable.rs)      *)
(*   SpecBitSet the layers and the iteration of VecBitSet (bitset.rs)      *)
(*   SpecBatchIds the batch-id counter of one batching pass                *)
(*   SpecSetCover greedy_set_cover and purge_out_of_set (mod.rs)           *)
(* A specification leaves the variables of the other parts at their idle   *)
(* values.                                                                 *)
(***************************************************************************)
EXTENDS Integers, Sequences, FiniteSets, TLC

VARIABLES
    \* ---- try_match_props (SpecMatch)
    tm_encoder,      \* T::get_props(): the properties the encoder declares, in declaration order
    tm_props,        \* the Vec<EncodedProp> handed to try_match_props (before the call)
    tm_result,       \* None before the call; afterwards [is_match, props]
    \* ---- EncoderStorage (SpecCover)
    registry,        \* BunchOfEncoders of the builder / storage: globals, batch, instance
    layout_props,    \* the layout's properties, in layout order
    cover,           \* None before encoders_for_props; afterwards its per-kind and final results
    \* ---- the world that is batched (Spec, SpecSystem)
    world,           \* entity id -> [layout, key]: the layout key the resolver sees (0: skipped)
                     \* and the component value the batch-key mappers read
    batch_encoders,  \* the batch-key encoders of the pipelines, in encoder order
    \* ---- EncodingQuery / EvaluatedQuery (Spec)
    q_pc,            \* "new", "evaluated" (EncodingQuery::encode returned), "encoded", "panicked"
    pipelines,       \* self.pipelines: Vec<EvaluatedPipeline>
    frame,           \* number of EncodingQuery::encode calls so far
    warnings,        \* the warn! log: the layouts warned about, in order
    q_indices,       \* the vector `indices` of EvaluatedQuery::encode, as the encoders saw it
    \* ---- DataDrivenRenderGroup (SpecSystem)
    systems,         \* self.systems: Vec<PipelineEncodingSystem>, each with the position of its run
    group_pc,        \* DataDrivenRenderGroup: "new", "prepared", or "panicked" once a panic of
                     \* a system has unwound out of draw_inline
    \* ---- EncodeBufferBuilder and its writers (SpecBuffer)
    buffer_layout,   \* the BufferLayout handed to create: props (prop, absolute_offset), padded_size
    descs_layout,    \* the DescriptorsLayout handed to create: its props
    raw_buffer,      \* the byte buffer the strides point into
    desc_buffer,     \* the descriptor buffer the descriptor strides point into
    builder,         \* None before create; afterwards Some([bin_strides, desc_strides])
    writers,         \* the live writers: each holds the strides it has checked out
    write_log,       \* the strided byte writes since create: [stride, index, range]
    last_call,       \* None, or the last call on the builder or a writer, with its arguments
    calls,           \* number of calls on the builder and its writers since create
    buf_pc,          \* "new", "created", or "panic: ..." after a fatal error
    \* ---- ResolverCacheLayer as a PipelinesResolver (SpecResolver)
    anchors,         \* entity id -> None, or Some of its anchor component: [key, layout, batch]
    cache_layer,     \* the ResolverCacheLayer: layout_cache, batch_index, next_layout, next_batch
    r_pipelines,     \* the Vec<EncoderPipeline> the last resolve pass returned
    inner_calls,     \* the calls of the inner resolve function in the last pass: [key, layout]
    passes,          \* number of resolve passes so far
    r_pc,            \* "ok", or "panic: ..." after a fatal error
    \* ---- ensure_buffer (SpecEnsure)
    gpu_buffer,      \* Option<Buffer>: None, or Some of the buffer's size
    last_ensure,     \* None, or the last ensure_buffer call: its arguments and what it returned
    \* ---- EncodersDataAccessor (SpecAccess)
    acc_encoders,    \* the accessor's BunchOfEncoders: per kind, the encoders' reads and writes
    acc_inner,       \* the inner accessor: its reads and writes
    declared,        \* None, or what reads() and writes() returned to the scheduler
    \* ---- dynamic encoders and their encode loops (SpecEncode)
    components,      \* the component storage the loops read: entity id -> None or Some(value)
    dyn_encoder,     \* the encoder type T behind the dyn encoder: kind, props, mapper,
                     \* and the reads and writes of its SystemData
    enc_ops,         \* the Vec<OpEncode> handed to the encoder
    lazy,            \* None, or Some of the LazyFetch handed to the encoder: reads, writes
    fetched,         \* None, or Some of the system data LazyFetch::fetch returned
    enc_writes,      \* the calls of write on the writer (write_at on the key stride), in order
    enc_pc,          \* "new", "done", or "panic: ..." after a fatal error
    \* ---- the batch-id counter of a batching pass (SpecBatchIds)
    id_pass,         \* the state of the chunk loop: batches_by_key, batch_per_entity,
                     \* encoder_batch_writes, next_batch_id, the panic that ended it,
                     \* and whether the build checks integer overflow
    \* ---- VecBitSet (SpecBitSet)
    bitsets,         \* the Vec<&BitSet> of the VecBitSet: each constituent as its set of ids
    iterated,        \* None, or Some of the ids an iteration of the VecBitSet yielded
    contained,       \* None, or Some of the ids contains() returned true for
    \* ---- the entity set of an EncoderPipeline (SpecEntities)
    encoder_pipeline, \* its fields entities (the bitset, as a set of ids) and entities_count,
                     \* and the last call on it
    \* ---- greedy_set_cover (SpecSetCover)
    groups,          \* the groups handed to greedy_set_cover, in the order of the Vec
    keys_to_cover,   \* the key set handed to it
    solution         \* None, or Some of what it returned: Ok with its groups, Err, or a panic

matchVars == <<tm_encoder, tm_props, tm_result>>
coverVars == <<registry, layout_props, cover>>
worldVars == <<world, batch_encoders>>
queryVars == <<q_pc, pipelines, q_indices, frame, warnings>>
systemVars == <<systems, group_pc>>
batchVars == <<worldVars, queryVars, systemVars>>
bufferVars == <<buffer_layout, descs_layout, raw_buffer, desc_buffer, builder, writers,
                write_log, last_call, calls, buf_pc>>
resolverVars == <<anchors, cache_layer, r_pipelines, inner_calls, passes, r_pc>>
ensureVars == <<gpu_buffer, last_ensure>>
accessVars == <<acc_encoders, acc_inner, declared>>
encodeVars == <<components, dyn_encoder, enc_ops, lazy, fetched, enc_writes, enc_pc>>
helperVars == <<id_pass, bitsets, iterated, contained, encoder_pipeline,
                groups, keys_to_cover, solution>>
extVars == <<bufferVars, resolverVars, ensureVars, accessVars, encodeVars, helperVars>>
\* What each of these parts leaves unchanged.
restOfBuffer == <<matchVars, coverVars, batchVars, resolverVars, ensureVars, accessVars, encodeVars, helperVars>>
restOfResolver == <<matchVars, coverVars, batchVars, bufferVars, ensureVars, accessVars, encodeVars, helperVars>>
restOfEnsure == <<matchVars, coverVars, batchVars, bufferVars, resolverVars, accessVars, encodeVars, helperVars>>
restOfAccess == <<matchVars, coverVars, batchVars, bufferVars, resolverVars, ensureVars, encodeVars, helperVars>>
restOfEncode == <<matchVars, coverVars, batchVars, bufferVars, resolverVars, ensureVars,
                  accessVars, helperVars>>
restOfHelper == <<matchVars, coverVars, batchVars, bufferVars, resolverVars, ensureVars,
                  accessVars, encodeVars>>
vars == <<matchVars, coverVars, batchVars, extVars>>

\* Rust's Option: None is the empty sequence, Some(x) the one-element sequence.
None == <<>>
Some(x) == <<x>>
IsSome(o) == Len(o) = 1
Unwrap(o) == o[1]

MaxEntities == 3

\* The buffer builder while another part of the engine is explored: not created.
BufferIdle ==
    /\ buffer_layout = [props |-> <<>>, padded_size |-> 0]
    /\ descs_layout = <<>>
    /\ raw_buffer = <<>>
    /\ desc_buffer = <<>>
    /\ builder = None
    /\ writers = {}
    /\ write_log = {}
    /\ last_call = None
    /\ calls = 0
    /\ buf_pc = "new"
\* The resolver before its first pass, over a world without anchor components.
ResolverIdle ==
    /\ anchors = [e \in 1..MaxEntities |-> None]
    /\ cache_layer = [layout_cache |-> {}, batch_index |-> {},
                      next_layout |-> 0, next_batch |-> 0]
    /\ r_pipelines = <<>>
    /\ inner_calls = <<>>
    /\ passes = 0
    /\ r_pc = "ok"
\* No buffer, no call of ensure_buffer.
EnsureIdle == gpu_buffer = None /\ last_ensure = None
\* An accessor without encoders that was not asked yet.
AccessIdle ==
    /\ acc_encoders = [globals |-> <<>>, batch |-> <<>>, instance |-> <<>>]
    /\ acc_inner = [reads |-> <<>>, writes |-> <<>>]
    /\ declared = None
\* No encoder is being run.
EncodeIdle ==
    /\ components = [e \in 1..MaxEntities |-> None]
    /\ dyn_encoder = [kind |-> "globals", props |-> <<>>, mapper |-> <<>>,
                      reads |-> <<>>, writes |-> <<>>]
    /\ enc_ops = <<>>
    /\ lazy = None
    /\ fetched = None
    /\ enc_writes = <<>>
    /\ enc_pc = "new"
\* No chunk loop, no VecBitSet, no entity set and no set cover is explored.
BatchIdIdle ==
    id_pass = [batches_by_key |-> {}, batch_per_entity |-> <<>>, encoder_batch_writes |-> <<>>,
               next_batch_id |-> 0, panic |-> "", overflow_checks |-> FALSE]
BitSetIdle == bitsets = <<>> /\ iterated = None /\ contained = None
EntitiesIdle == encoder_pipeline = [entities |-> {}, entities_count |-> 0, last |-> <<>>]
SetCoverIdle == groups = <<>> /\ keys_to_cover = {} /\ solution = None
HelperIdle == BatchIdIdle /\ BitSetIdle /\ EntitiesIdle /\ SetCoverIdle
ExtIdle ==
    BufferIdle /\ ResolverIdle /\ EnsureIdle /\ AccessIdle /\ EncodeIdle /\ HelperIdle

\* The batching variables while another part of the engine is explored:
\* no entity is rendered, nothing is evaluated, no system exists.
BatchIdle ==
    /\ world = [e \in 1..MaxEntities |-> [layout |-> 0, key |-> 0]]
    /\ batch_encoders = <<>>
    /\ q_pc = "new"
    /\ pipelines = <<>>
    /\ q_indices = <<>>
    /\ frame = 0
    /\ warnings = <<>>
    /\ systems = <<>>
    /\ group_pc = "new"

(***************************************************************************)
(* Sequences                                                               *)
(***************************************************************************)
Range(s) == {s[i] : i \in 1..Len(s)}

\* The sequences over S without repetition, of length at most n.
DupFreeSeqs(S, n) ==
    UNION {{s \in [1..k -> S] : \A i, j \in 1..k : i # j => s[i] # s[j]} : k \in 0..n}

\* Iterator::position: the first index (1-based) of x in s; 0 when absent.
Position(s, x) ==
    IF \E i \in 1..Len(s) : s[i] = x
    THEN CHOOSE i \in 1..Len(s) : s[i] = x /\ \A j \in 1..(i - 1) : s[j] # x
    ELSE 0

Reverse(s) == [i \in 1..Len(s) |-> s[Len(s) + 1 - i]]

\* Vec::swap_remove(index): the last element takes the place of the removed one.
\* (An index past the end panics in Rust; no call of the model makes one, and the
\* sequence is then left as it is.)
SwapRemove(s, i) ==
    IF i > Len(s) THEN s
    ELSE IF i = Len(s) THEN SubSeq(s, 1, Len(s) - 1)
    ELSE [SubSeq(s, 1, Len(s) - 1) EXCEPT ![i] = s[Len(s)]]

\* swap_remove at each index of idxs, in the order of idxs.
RECURSIVE SwapRemoveAll(_, _)
SwapRemoveAll(s, idxs) ==
    IF idxs = <<>> THEN s
    ELSE SwapRemoveAll(SwapRemove(s, Head(idxs)), Tail(idxs))

(***************************************************************************)
(* DynEncoder::try_match_props (dyn_encoder.rs) and the identical          *)
(* AnyEncoder::try_match_props (stream_encoder.rs)                         *)
(***************************************************************************)
\* The order in which the matched indices are swap_removed: sorted, then reversed.
RemovalOrderAscending(indices) == SortSeq(indices, <)

RemovalOrder(indices) == Reverse(SortSeq(indices, <))

try_match_props(encoder, encoded_props) ==
    LET is_match == \A i \in 1..Len(encoder) :
                        \E j \in 1..Len(encoded_props) : encoded_props[j] = encoder[i]
        indices == [i \in 1..Len(encoder) |-> Position(encoded_props, encoder[i])]
    IN  [is_match |-> is_match,
         props    |-> IF is_match THEN SwapRemoveAll(encoded_props, RemovalOrder(indices))
                      ELSE encoded_props]

(***************************************************************************)
(* SpecMatch: one try_match_props call on arbitrary duplicate-free inputs  *)
(* (a property set holds no property twice, and a layout names each        *)
(* property once).                                                         *)
(***************************************************************************)
\* The number of distinct properties the inputs of SpecMatch are drawn from.
MaxProps == 4

PropNames == <<"a", "b", "c", "d", "e", "f">>
Props(n) == {PropNames[i] : i \in 1..n}

CoverIdle ==
    /\ registry = [globals |-> <<>>, batch |-> <<>>, instance |-> <<>>]
    /\ layout_props = <<>>
    /\ cover = None

InitMatch ==
    /\ tm_encoder \in DupFreeSeqs(Props(MaxProps), MaxProps)
    /\ tm_props \in DupFreeSeqs(Props(MaxProps), MaxProps)
    /\ tm_result = None
    /\ CoverIdle
    /\ BatchIdle
    /\ ExtIdle

TryMatchProps ==
    /\ tm_result = None
    /\ tm_result' = Some(try_match_props(tm_encoder, tm_props))
    /\ UNCHANGED <<tm_encoder, tm_props, coverVars, batchVars, extVars>>

NextMatch == TryMatchProps

SpecMatch == InitMatch /\ [][NextMatch]_vars

IsDupFree(s) == \A i, j \in 1..Len(s) : i # j => s[i] # s[j]

\* C9: try_match_props returns true exactly when every property the encoder declares
\* is in the list; on true the list afterwards holds exactly the previous elements
\* minus the encoder's properties, none lost and none duplicated, wherever the matched
\* properties stood; on false the list is unchanged.
C9_TryMatchClaimsExactly ==
    IsSome(tm_result) =>
        LET r == Unwrap(tm_result)
        IN  /\ r.is_match <=> Range(tm_encoder) \subseteq Range(tm_props)
            /\ r.is_match =>
                  /\ Range(r.props) = Range(tm_props) \ Range(tm_encoder)
                  /\ Len(r.props) = Len(tm_props) - Len(tm_encoder)
                  /\ IsDupFree(r.props)
            /\ ~r.is_match => r.props = tm_props

\* A match of two properties of which the first declared stands last in the list and the
\* second declared stands first, with unmatched properties between them.
C9_Witness ==
    /\ IsSome(tm_result)
    /\ Unwrap(tm_result).is_match
    /\ Len(tm_encoder) = 2
    /\ Len(tm_props) = 4
    /\ Position(tm_props, tm_encoder[1]) = 4
    /\ Position(tm_props, tm_encoder[2]) = 1
    /\ Len(Unwrap(tm_result).props) = 2

(***************************************************************************)
(* EncoderStorageBuilder and EncoderStorage (storage.rs)                   *)
(***************************************************************************)
\* The most encoders registered in one storage, over the three kinds.
MaxRegistered == 3

\* The encoder types that may be registered, each given by its get_props().
EncoderTypes == {<<"a">>, <<"b">>, <<"a", "b">>, <<"b", "a">>}

\* The layouts asked for.
Layouts == {<<"a">>, <<"a", "b">>, <<"b", "a">>}

Kinds == {"globals", "batch", "instance"}

Registered == Len(registry.globals) + Len(registry.batch) + Len(registry.instance)

\* The order in which match_group tries the encoders of one kind: registration order.
EncoderOrderReversed(encoders) == [i \in 1..Len(encoders) |-> Len(encoders) + 1 - i]

EncoderOrder(encoders) == [i \in 1..Len(encoders) |-> i]

\* The loop of match_group: not_found_props shrinks with every encoder that matches.
RECURSIVE MatchLoop(_, _, _, _)
MatchLoop(encoders, order, not_found_props, matched_encoders) ==
    IF order = <<>> THEN [not_found_props |-> not_found_props,
                          matched_encoders |-> matched_encoders]
    ELSE LET r == try_match_props(encoders[Head(order)], not_found_props)
         IN  MatchLoop(encoders, Tail(order), r.props,
                       IF r.is_match THEN Append(matched_encoders, Head(order))
                       ELSE matched_encoders)

\* match_group: None, or Some of the matched encoders (their indices in the kind's list).
match_group(props, encoders) ==
    LET r == MatchLoop(encoders, EncoderOrder(encoders), props, <<>>)
    IN  IF Len(r.not_found_props) > 0 THEN None ELSE Some(r.matched_encoders)

\* encoders_for_props: every kind is matched against the full list of layout properties.
encoders_for_props(props, encoders) ==
    LET globals  == match_group(props, encoders.globals)
        batch    == match_group(props, encoders.batch)
        instance == match_group(props, encoders.instance)
    IN  [globals |-> globals, batch |-> batch, instance |-> instance,
         result |-> IF IsSome(globals) /\ IsSome(batch) /\ IsSome(instance)
                    THEN Some([globals  |-> Unwrap(globals),
                               batch    |-> Unwrap(batch),
                               instance |-> Unwrap(instance)])
                    ELSE None]

MatchIdle ==
    /\ tm_encoder = <<>>
    /\ tm_props = <<>>
    /\ tm_result = None

InitCover ==
    /\ registry = [globals |-> <<>>, batch |-> <<>>, instance |-> <<>>]
    /\ layout_props \in Layouts
    /\ cover = None
    /\ MatchIdle
    /\ BatchIdle
    /\ ExtIdle

with_globals_encoder ==
    /\ cover = None
    /\ Registered < MaxRegistered
    /\ \E E \in EncoderTypes :
         registry' = [registry EXCEPT !.globals = Append(@, E)]
    /\ UNCHANGED <<layout_props, cover, matchVars, batchVars, extVars>>

with_batch_encoder ==
    /\ cover = None
    /\ Registered < MaxRegistered
    /\ \E E \in EncoderTypes :
         registry' = [registry EXCEPT !.batch = Append(@, E)]
    /\ UNCHANGED <<layout_props, cover, matchVars, batchVars, extVars>>

with_instance_encoder ==
    /\ cover = None
    /\ Registered < MaxRegistered
    /\ \E E \in EncoderTypes :
         registry' = [registry EXCEPT !.instance = Append(@, E)]
    /\ UNCHANGED <<layout_props, cover, matchVars, batchVars, extVars>>

\* EncoderStorage::encoders_for_props on the built storage; the registry is frozen from
\* then on (EncoderStorageBuilder::build moves the lists unchanged into the storage).
EncodersForProps ==
    /\ cover = None
    /\ cover' = Some(encoders_for_props(layout_props, registry))
    /\ UNCHANGED <<registry, layout_props, matchVars, batchVars, extVars>>

NextCover ==
    \/ with_globals_encoder
    \/ with_batch_encoder
    \/ with_instance_encoder
    \/ EncodersForProps

SpecCover == InitCover /\ [][NextCover]_vars

\* The resolved encoders of a cover, each as <<kind, index in the kind's list>>.
ResolvedEncoders(bunch) ==
    UNION {{<<k, bunch[k][i]>> : i \in 1..Len(bunch[k])} : k \in Kinds}

DeclaredProps(e) == Range(registry[e[1]][e[2]])

\* C7: whenever encoders_for_props returns encoders for a layout, every property of the
\* layout is declared by exactly one of the resolved encoders (globals, batch and
\* instance together): their property sets are pairwise disjoint and their union is
\* the layout's property set.
C7_ExactlyOneEncoderPerProperty ==
    (IsSome(cover) /\ IsSome(Unwrap(cover).result)) =>
        LET resolved == ResolvedEncoders(Unwrap(Unwrap(cover).result))
        IN  /\ \A p \in Range(layout_props) :
                  Cardinality({e \in resolved : p \in DeclaredProps(e)}) = 1
            /\ \A e, f \in resolved : e # f => DeclaredProps(e) \cap DeclaredProps(f) = {}
            /\ UNION {DeclaredProps(e) : e \in resolved} = Range(layout_props)

\* The work list P of the claim: globals encoders claim from the layout's properties,
\* batch encoders from what the globals left, instance encoders from what the batch left.
SharedWorkListLeft ==
    LET g == MatchLoop(registry.globals, EncoderOrder(registry.globals), layout_props, <<>>)
        b == MatchLoop(registry.batch, EncoderOrder(registry.batch), g.not_found_props, <<>>)
        i == MatchLoop(registry.instance, EncoderOrder(registry.instance),
                       b.not_found_props, <<>>)
    IN  i.not_found_props

\* C8: the three encoder kinds share one work list; the layout is servable exactly when
\* the list is empty after globals, batch and instance encoders have claimed from it in
\* turn (so a layout covered partly by one kind and partly by another is servable).
C8_ServableIffSharedWorkListEmpty ==
    IsSome(cover) => (IsSome(Unwrap(cover).result) <=> SharedWorkListLeft = <<>>)

ProducesAB(E) == Range(E) = {"a", "b"}

\* C10: the cover of one kind is greedy in registration order. For a layout {a,b}: with
\* Y (producing {a,b}) registered before X (producing {a}) the cover is Y alone; with X
\* before Y there is no cover; of two encoders that both produce {a,b} only the first
\* registered is selected.
C10_GreedyInRegistrationOrder ==
    (IsSome(cover) /\ Range(layout_props) = {"a", "b"}) =>
        \A k \in Kinds :
            LET encoders == registry[k]
                matched  == Unwrap(cover)[k]
            IN  Len(encoders) = 2 =>
                  /\ (ProducesAB(encoders[1]) /\ encoders[2] = <<"a">>)
                        => matched = Some(<<1>>)
                  /\ (encoders[1] = <<"a">> /\ ProducesAB(encoders[2]))
                        => matched = None
                  /\ (ProducesAB(encoders[1]) /\ ProducesAB(encoders[2]))
                        => matched = Some(<<1>>)

\* Y before X among the batch encoders, and the cover computed.
C10_Witness ==
    /\ IsSome(cover)
    /\ layout_props = <<"b", "a">>
    /\ registry.batch = << <<"a", "b">>, <<"a">> >>
    /\ Unwrap(cover).batch = Some(<<1>>)

(***************************************************************************)
(* The batched world.  Every entity carries a layout key, which the        *)
(* resolver turns into a pipeline, and one component value, from which the *)
(* batch-key mappers of the pipeline's batch encoders compute key bytes.   *)
(***************************************************************************)
MaxPipelines == 2
\* Entities probed per batching round.  The program's value is 1024
\* (query.rs:17, renderable.rs:31); the model scales it down so that a
\* pipeline of MaxEntities entities needs more than one round.
BATCH_ROUND_SIZE == 2

Entities == 1..MaxEntities
KeyValues == {7, 9, 263}
Worlds == [Entities -> [layout : 0..MaxPipelines, key : KeyValues]]

\* Batch encoders, by the type of their BatchKey: the low byte of the
\* component, its high byte, or the zero-sized key (); a pipeline may have
\* no batch encoder at all.
BatchEncoderLists == {<<>>, <<"lo">>, <<"lo", "hi">>, <<"unit">>}
batch_key_size(encoder) ==
    CASE encoder = "lo" -> 1
      [] encoder = "hi" -> 1
      [] encoder = "unit" -> 0
\* mapper(components).as_bytes()
as_bytes(encoder, component) ==
    CASE encoder = "lo" -> <<component % 256>>
      [] encoder = "hi" -> <<component \div 256>>
      [] encoder = "unit" -> <<>>

RECURSIVE Sum(_)
Sum(s) == IF s = <<>> THEN 0 ELSE Head(s) + Sum(Tail(s))
Min(a, b) == IF a < b THEN a ELSE b

\* PipelinesResolver::resolve: the entities are joined in ascending id; an
\* entity of a layout seen before is added to that layout's pipeline, an
\* entity of a new layout opens a new pipeline, layout 0 is skipped.
RECURSIVE resolve_world(_, _, _)
resolve_world(w, e, resolved) ==
    IF e > MaxEntities THEN resolved
    ELSE LET layout == w[e].layout
         IN  IF layout = 0 THEN resolve_world(w, e + 1, resolved)
             ELSE IF \E i \in 1..Len(resolved) : resolved[i].layout = layout
             THEN LET index == CHOOSE i \in 1..Len(resolved) : resolved[i].layout = layout
                  IN  resolve_world(w, e + 1, [resolved EXCEPT ![index].entities = Append(@, e)])
             ELSE resolve_world(w, e + 1, Append(resolved, [layout |-> layout, entities |-> <<e>>]))
resolve(e, resolved) == resolve_world(world, e, resolved)

(***************************************************************************)
(* Key buffer and strides                                                  *)
(***************************************************************************)
OpEncode(entity_id, write_index) == [entity_id |-> entity_id, write_index |-> write_index]

\* Vec::resize(new_len, 0): truncates, or pads with zero bytes.
Resize(buf, new_len) ==
    [pos \in 1..new_len |-> IF pos <= Len(buf) THEN buf[pos] ELSE 0]

\* A from_sizes whose strides count one element less than the slice holds.
from_sizes_one_short(len, sizes) ==
    LET stride == Sum(sizes)
    IN  IF ~(stride > 0 /\ len % stride = 0) THEN None
        ELSE Some([i \in 1..Len(sizes) |->
                     [begin            |-> Sum(SubSeq(sizes, 1, i - 1)),
                      stride           |-> stride,
                      elem_count       |-> len \div stride - 1,
                      contiguous_count |-> sizes[i]]])
\* BufferStride::from_sizes: None when its assertion fails.
from_sizes(len, sizes) ==
    LET stride == Sum(sizes)
    IN  IF ~(stride > 0 /\ len % stride = 0) THEN None
        ELSE Some([i \in 1..Len(sizes) |->
                     [begin            |-> Sum(SubSeq(sizes, 1, i - 1)),
                      stride           |-> stride,
                      elem_count       |-> len \div stride,
                      contiguous_count |-> sizes[i]]])

\* BufferStride::write_at: copies data to begin + stride * idx.
write_at(buf, stride, idx, data) ==
    LET first == stride.begin + stride.stride * idx
    IN  [pos \in 1..Len(buf) |->
            IF pos - 1 >= first /\ pos - 1 < first + stride.contiguous_count
            THEN data[pos - first]
            ELSE buf[pos]]

\* EncodeKeyLoopImpl::run: one key write per op.
RECURSIVE encode_batch_keys(_, _, _, _)
encode_batch_keys(encoder, ops, stride, buf) ==
    IF ops = <<>> THEN buf
    ELSE encode_batch_keys(encoder, Tail(ops), stride,
            write_at(buf, stride, Head(ops).write_index,
                     as_bytes(encoder, world[Head(ops).entity_id].key)))

\* for (encoder, stride) in encoders.zip(strides)
RECURSIVE EncodeKeys(_, _, _, _, _)
EncodeKeys(i, encoders, strides, ops, buf) ==
    IF i > Min(Len(encoders), Len(strides)) THEN buf
    ELSE EncodeKeys(i + 1, encoders, strides, ops,
                    encode_batch_keys(encoders[i], ops, strides[i], buf))

chunks_exact(buf, chunk_size) ==
    [i \in 1..(Len(buf) \div chunk_size) |-> SubSeq(buf, (i - 1) * chunk_size + 1, i * chunk_size)]

(***************************************************************************)
(* The batching loop, shared verbatim by EncodingQuery::evaluate_batches   *)
(* (query.rs:91-139) and PipelineEncodingSystem::run                       *)
(* (renderable.rs:532-593).  Its state `b` holds                           *)
(*   batch_keys_buffer, batches_by_key, batch_per_entity,                  *)
(*   encoder_batch_writes, next_batch_id, panic.                           *)
(* batches_by_key, the map from key bytes to BatchInfo, is a set of        *)
(* [key, count, batch_id] records with pairwise distinct keys.             *)
(***************************************************************************)
HasKey(batches_by_key, chunk) == \E batch \in batches_by_key : batch.key = chunk
GetKey(batches_by_key, chunk) == CHOOSE batch \in batches_by_key : batch.key = chunk

\* for (index, chunk) in batch_keys_buffer.chunks_exact(key_sizes_sum).enumerate()
\* next_batch_id is a u16: `next_batch_id += 1` beyond its range is a panic
\* in a build that checks integer overflow and wraps around otherwise.
U16Modulus == 65536
RECURSIVE CollectBatches(_, _, _, _, _, _)
CollectBatches(chunks, index, encoder_key_writes, b, id_modulus, overflow_checks) ==
    IF index > Len(chunks) \/ b.panic # "" THEN b
    ELSE LET chunk == chunks[index]
         IN  IF HasKey(b.batches_by_key, chunk)
             THEN LET batch == GetKey(b.batches_by_key, chunk)
                  IN  CollectBatches(chunks, index + 1, encoder_key_writes,
                        [b EXCEPT !.batch_per_entity = Append(@, batch.batch_id),
                                  !.batches_by_key = (@ \ {batch}) \cup
                                        {[batch EXCEPT !.count = @ + 1]}],
                        id_modulus, overflow_checks)
             ELSE CollectBatches(chunks, index + 1, encoder_key_writes,
                        [b EXCEPT !.batch_per_entity = Append(@, b.next_batch_id),
                                  !.batches_by_key = @ \cup
                                        {[key |-> chunk, count |-> 1, batch_id |-> b.next_batch_id]},
                                  !.encoder_batch_writes = Append(@,
                                        OpEncode(encoder_key_writes[index].entity_id, b.next_batch_id)),
                                  !.next_batch_id = (@ + 1) % id_modulus,
                                  !.panic = IF overflow_checks /\ b.next_batch_id + 1 >= id_modulus
                                            THEN "overflow" ELSE @],
                        id_modulus, overflow_checks)

\* for round in 0..total_batching_rounds.  Every round entered is noted in
\* b.rounds: the ops it filled, the number of encoders it invoked, the key
\* strides from_sizes made and their element count.  With debug
\* assertions (renderable.rs only) a stride whose contiguous_count differs
\* from iter_count stops the round before its encoder is invoked.
RECURSIVE BatchingRounds(_, _, _, _, _)
BatchingRounds(round, entities, encoders, b, debug_assertions) ==
    LET entities_count == Len(entities)
        total_batching_rounds == (entities_count + BATCH_ROUND_SIZE - 1) \div BATCH_ROUND_SIZE
        encoder_key_sizes == [i \in 1..Len(encoders) |-> batch_key_size(encoders[i])]
        key_sizes_sum == Sum(encoder_key_sizes)
    IN  IF round >= total_batching_rounds \/ b.panic # "" THEN b
        ELSE LET iter_count == Min(BATCH_ROUND_SIZE, entities_count - round * BATCH_ROUND_SIZE)
                 resized == Resize(b.batch_keys_buffer, key_sizes_sum * iter_count)
                 encoder_key_writes ==
                     [index \in 1..iter_count |->
                         OpEncode(entities[round * BATCH_ROUND_SIZE + index], index - 1)]
                 strides == from_sizes(Len(resized), encoder_key_sizes)
                 Entered(invoked, elem_count) ==
                     Append(b.rounds, [ops |-> encoder_key_writes, encoders |-> invoked,
                                       elem_count |-> elem_count,
                                       strides |-> IF strides = None THEN <<>>
                                                   ELSE Unwrap(strides)])
             IN  IF strides = None
                 THEN [b EXCEPT !.batch_keys_buffer = resized, !.panic = "from_sizes",
                                !.rounds = Entered(0, 0)]
                 ELSE LET pairs == Min(Len(encoders), Len(Unwrap(strides)))
                          elem_count == IF pairs = 0 THEN 0 ELSE Unwrap(strides)[1].elem_count
                          failing == {i \in 1..pairs :
                                         Unwrap(strides)[i].contiguous_count # iter_count}
                      IN  IF debug_assertions /\ failing # {}
                          THEN LET first == CHOOSE i \in failing : \A j \in failing : i <= j
                               IN  [b EXCEPT !.batch_keys_buffer =
                                                 EncodeKeys(1, SubSeq(encoders, 1, first - 1),
                                                            Unwrap(strides), encoder_key_writes,
                                                            resized),
                                             !.panic = "debug_assert",
                                             !.rounds = Entered(first - 1, elem_count)]
                          ELSE LET written == EncodeKeys(1, encoders, Unwrap(strides),
                                                         encoder_key_writes, resized)
                               IN  BatchingRounds(round + 1, entities, encoders,
                                     CollectBatches(chunks_exact(written, key_sizes_sum), 1,
                                                    encoder_key_writes,
                                                    [b EXCEPT !.batch_keys_buffer = written,
                                                              !.rounds = Entered(pairs, elem_count)],
                                                    U16Modulus, debug_assertions),
                                     debug_assertions)

\* The loop's state on entry: the vectors of the pipeline start empty and its
\* id counter at 0; the buffer and the map are whatever the caller holds.
BatchingStart(batch_keys_buffer, batches_by_key) ==
    [batch_keys_buffer    |-> batch_keys_buffer,
     batches_by_key       |-> batches_by_key,
     batch_per_entity     |-> <<>>,
     encoder_batch_writes |-> <<>>,
     next_batch_id        |-> 0,
     rounds               |-> <<>>,
     panic                |-> ""]

(***************************************************************************)
(* EncodingQuery::evaluate_batches                                         *)
(***************************************************************************)
\* vec![0; batches_by_key.len()], then batch_offsets[batch_id] = count for
\* the map's values in hash order: when several entries of the map carry the
\* same batch id, the entry written last is any of them.  An id beyond the
\* vector's length is an index panic (no outcome).
RECURSIVE Product(_)
Product(sets) ==
    IF sets = <<>> THEN {<<>>}
    ELSE {<<x>> \o rest : x \in Head(sets), rest \in Product(Tail(sets))}
BatchCounts(batches_by_key) ==
    LET len == Cardinality(batches_by_key)
        Written(id) == {batch.count : batch \in {x \in batches_by_key : x.batch_id = id}}
    IN  IF \E batch \in batches_by_key : batch.batch_id >= len THEN {}
        ELSE Product([i \in 1..len |-> IF Written(i - 1) = {} THEN {0} ELSE Written(i - 1)])

\* batch_offsets.iter_mut().fold(0, ..): every entry becomes the sum of the
\* entries before it.
ExclusivePrefixSum(counts) == [i \in 1..Len(counts) |-> Sum(SubSeq(counts, 1, i - 1))]

\* The closure of iter.map(..) applied to the pipelines in turn; batches_by_key
\* and batch_keys_buffer live outside the closure (query.rs:77-78).  Returns
\* the evaluated pipelines, each still with the map it computes its offsets
\* from, or the panic that ended the evaluation.
RECURSIVE evaluate_batches(_, _, _, _, _)
evaluate_batches(iter, encoders, batch_keys_buffer, batches_by_key, evaluated) ==
    IF iter = <<>> THEN [panic |-> "", evaluated |-> evaluated]
    ELSE LET pipeline == Head(iter)
             b == BatchingRounds(0, pipeline.entities, encoders,
                                 BatchingStart(batch_keys_buffer, batches_by_key), FALSE)
         IN  IF b.panic # "" THEN [panic |-> b.panic, evaluated |-> evaluated]
             ELSE IF BatchCounts(b.batches_by_key) = {}
             THEN [panic |-> "batch_offsets index", evaluated |-> evaluated]
             ELSE evaluate_batches(Tail(iter), encoders, b.batch_keys_buffer, b.batches_by_key,
                    Append(evaluated,
                        [entities             |-> pipeline.entities,
                         batch_per_entity     |-> b.batch_per_entity,
                         encoder_batch_writes |-> b.encoder_batch_writes,
                         batches_by_key       |-> b.batches_by_key]))

\* The EvaluatedPipeline built from one outcome of the offsets computation.
EvaluatedPipeline(e, counts) ==
    [entities             |-> e.entities,
     batch_per_entity     |-> e.batch_per_entity,
     batch_offsets        |-> ExclusivePrefixSum(counts),
     encoder_batch_writes |-> e.encoder_batch_writes]

(***************************************************************************)
(* EvaluatedQuery::encode: the instance write indices                      *)
(***************************************************************************)
\* indices.extend(batch_per_entity.iter().map(..)): every entity takes the
\* next free index of its batch.  None is the index panic.
RECURSIVE extend_indices(_, _, _)
extend_indices(batch_per_entity, next_indices_per_batch, idx) ==
    IF batch_per_entity = <<>> THEN Some(idx)
    ELSE LET batch_id == Head(batch_per_entity)
         IN  IF batch_id >= Len(next_indices_per_batch) THEN None
             ELSE extend_indices(Tail(batch_per_entity),
                    [next_indices_per_batch EXCEPT ![batch_id + 1] = @ + 1],
                    Append(idx, next_indices_per_batch[batch_id + 1]))

\* for evaluated in &self.pipelines: `indices` is declared before the loop
\* (query.rs:216) and only ever extended.
RECURSIVE encode_pipelines(_, _)
encode_pipelines(evaluated, idx) ==
    IF evaluated = <<>> THEN Some(idx)
    ELSE LET extended == extend_indices(Head(evaluated).batch_per_entity,
                                        Head(evaluated).batch_offsets, idx)
         IN  IF extended = None THEN None
             ELSE encode_pipelines(Tail(evaluated), Unwrap(extended))

\* EncodeLoopImpl::run (stream_encoder.rs:101-108): the i-th entity of the
\* pipeline's bitset is written at indices[i], i counting from 0.
InstanceWriteIndex(i) == q_indices[i]

(***************************************************************************)
(* Spec: one query over the world                                          *)
(***************************************************************************)
SystemIdle == systems = <<>> /\ group_pc = "new"
QueryIdle == q_pc = "new" /\ pipelines = <<>> /\ q_indices = <<>> /\ frame = 0 /\ warnings = <<>>

\* pipeline.layout().props of the pipeline resolved for a layout key.
LayoutPropsOf(layout) ==
    CASE layout = 1 -> <<"a">>
      [] layout = 2 -> <<"a", "b">>
      [] layout = 3 -> <<"b">>
      [] OTHER -> <<"c">>
\* A storage in which every kind holds the same encoders.
Uniform(encoders) == [globals |-> encoders, batch |-> encoders, instance |-> encoders]
\* A storage that serves the layouts 1, 2 and 3.
FullRegistry == Uniform(<< <<"a">>, <<"b">> >>)
StorageIdle == layout_props = <<>> /\ cover = None

Init ==
    /\ world \in Worlds
    /\ batch_encoders \in BatchEncoderLists
    /\ registry = FullRegistry
    /\ StorageIdle
    /\ QueryIdle
    /\ SystemIdle
    /\ MatchIdle
    /\ ExtIdle

\* One outcome of the offsets computation for each evaluated pipeline.
CountChoices(evaluated) ==
    Product([i \in 1..Len(evaluated) |-> BatchCounts(evaluated[i].batches_by_key)])

\* Frames of one query explored.
MaxFrames == 2

\* encoder_storage.encoders_for_props(&pipeline.layout().props) is Some(..)
ServableAlways(layout) == TRUE
Servable(layout) == IsSome(encoders_for_props(LayoutPropsOf(layout), registry).result)

\* The filter_map of EncodingQuery::encode: the pipelines it lets through.
filter_map(resolved) == SelectSeq(resolved, LAMBDA pipeline : Servable(pipeline.layout))

\* Position, among the resolved pipelines, of the k-th one let through.
PositionOfServable(resolved, k) ==
    CHOOSE i \in 1..Len(resolved) :
        /\ Servable(resolved[i].layout)
        /\ Cardinality({j \in 1..i : Servable(resolved[j].layout)}) = k

\* The warn! calls of the filter_map for the first `pulled` resolved pipelines.
Warned(resolved, pulled) ==
    LET skipped == SelectSeq(SubSeq(resolved, 1, pulled),
                             LAMBDA pipeline : ~Servable(pipeline.layout))
    IN  [i \in 1..Len(skipped) |-> skipped[i].layout]

\* EncodingQuery::encode: resolve the pipelines, drop those without encoders
\* and evaluate the batches of the others.  The iterator is lazy: when the
\* evaluation panics, the pipelines after the panicking one are never pulled.
EncodingQuery_encode ==
    /\ q_pc # "panicked"
    /\ frame < MaxFrames
    /\ frame' = frame + 1
    /\ LET resolved == resolve(1, <<>>)
           ev == evaluate_batches(filter_map(resolved), batch_encoders, <<>>, {}, <<>>)
           pulled == IF ev.panic = "" THEN Len(resolved)
                     ELSE PositionOfServable(resolved, Len(ev.evaluated) + 1)
       IN  /\ warnings' = warnings \o Warned(resolved, pulled)
           /\ IF ev.panic # ""
              THEN q_pc' = "panicked" /\ pipelines' = pipelines
              ELSE /\ q_pc' = "evaluated"
                   /\ \E counts \in CountChoices(ev.evaluated) :
                         pipelines' = [i \in 1..Len(ev.evaluated) |->
                                           EvaluatedPipeline(ev.evaluated[i], counts[i])]
    /\ UNCHANGED <<q_indices, worldVars, systemVars, matchVars, coverVars, extVars>>

\* EvaluatedQuery::encode over the pipelines evaluated before.
EvaluatedQuery_encode ==
    /\ q_pc = "evaluated"
    /\ LET encoded == encode_pipelines(pipelines, <<>>)
       IN  IF encoded = None
           THEN q_pc' = "panicked" /\ q_indices' = q_indices
           ELSE q_pc' = "encoded" /\ q_indices' = Unwrap(encoded)
    /\ UNCHANGED <<pipelines, frame, warnings, worldVars, systemVars, matchVars, coverVars, extVars>>

Next == EncodingQuery_encode \/ EvaluatedQuery_encode
Spec == Init /\ [][Next]_vars

(***************************************************************************)
(* SpecFrames: the frames of a query over storages that serve some or none *)
(* of the layouts                                                          *)
(***************************************************************************)
FrameWorlds == [Entities -> [layout : 0..MaxPipelines, key : {7, 9}]]
FrameRegistries == {Uniform(<<>>), Uniform(<< <<"a">> >>)}
InitFrames ==
    /\ world \in FrameWorlds
    /\ batch_encoders \in {<<"lo">>, <<"unit">>}
    /\ registry \in FrameRegistries
    /\ StorageIdle
    /\ QueryIdle
    /\ SystemIdle
    /\ MatchIdle
    /\ ExtIdle
SpecFrames == InitFrames /\ [][Next]_vars

(***************************************************************************)
(* Batching properties                                                     *)
(***************************************************************************)
RECURSIVE Flatten(_)
Flatten(parts) == IF parts = <<>> THEN <<>> ELSE Head(parts) \o Flatten(Tail(parts))
\* The concatenated batch-key bytes of an entity, in encoder order.
KeyBytes(e) ==
    Flatten([i \in 1..Len(batch_encoders) |-> as_bytes(batch_encoders[i], world[e].key)])
Evaluated == q_pc \in {"evaluated", "encoded"}
\* Position of the first entity of the pipeline that has the key of entity i.
FirstWithKey(entities, i) ==
    CHOOSE f \in 1..i : /\ KeyBytes(entities[f]) = KeyBytes(entities[i])
                        /\ \A g \in 1..(f - 1) : KeyBytes(entities[g]) # KeyBytes(entities[i])
\* Positions at which a key occurs for the first time.
FirstPositions(entities) == {i \in 1..Len(entities) : FirstWithKey(entities, i) = i}
\* Number of entities of the pipeline assigned to a batch.
InstanceCount(p, batch_id) ==
    Cardinality({i \in 1..Len(p.batch_per_entity) : p.batch_per_entity[i] = batch_id})

\* C1: within one batching pass of a pipeline, two entities of the pipeline
\* receive the same batch id in batch_per_entity if and only if their
\* concatenated batch-key bytes are identical.
C1_SameBatchIffSameKeyBytes ==
    Evaluated =>
        \A k \in 1..Len(pipelines) :
            LET p == pipelines[k]
            IN  /\ Len(p.batch_per_entity) = Len(p.entities)
                /\ \A i, j \in 1..Len(p.entities) :
                      (p.batch_per_entity[i] = p.batch_per_entity[j])
                          <=> (KeyBytes(p.entities[i]) = KeyBytes(p.entities[j]))

\* C2: batch ids are dense 0,1,2,.. in the order in which each distinct key
\* first occurs in the entity iteration order; encoder_batch_writes holds
\* exactly one op per batch, the k-th with write_index k and the entity id of
\* the first entity that produced batch k's key.
C2_DenseFirstOccurrenceIds ==
    Evaluated =>
        \A k \in 1..Len(pipelines) :
            LET p == pipelines[k]
                firsts == FirstPositions(p.entities)
                \* the id a key gets: the number of distinct keys that occur before it
                IdOf(i) == Cardinality({f \in firsts : f < FirstWithKey(p.entities, i)})
            IN  /\ Len(p.batch_per_entity) = Len(p.entities)
                /\ \A i \in 1..Len(p.entities) : p.batch_per_entity[i] = IdOf(i)
                /\ Len(p.encoder_batch_writes) = Cardinality(firsts)
                /\ \A f \in firsts :
                      p.encoder_batch_writes[IdOf(f) + 1] = OpEncode(p.entities[f], IdOf(f))

\* C3: after a pipeline's batching and instance-write computation,
\* batch_per_entity has exactly one entry per entity of the pipeline and
\* every entry is strictly less than the length of batch_offsets.
C3_BatchIdsIndexBatchOffsets ==
    \A k \in 1..Len(systems) :
        LET sys == systems[k]
        IN  sys.pc \notin {"new", "panic: from_sizes"} =>
                /\ Len(sys.batch_per_entity) = Len(sys.pipeline.entities)
                /\ \A i \in 1..Len(sys.batch_per_entity) :
                      sys.batch_per_entity[i] < Len(sys.batch_offsets)

\* C4: after batching, batch_offsets is the prefix sum of the per-batch
\* instance counts in batch-id order: it is non-decreasing,
\* batch_offsets[i+1] - batch_offsets[i] is the number of entities assigned
\* to batch i, and these differences sum to the number of entities of the
\* pipeline.
C4_BatchOffsetsArePrefixSums ==
    Evaluated =>
        \A k \in 1..Len(pipelines) :
            LET p == pipelines[k]
                offsets == p.batch_offsets
                diffs == [i \in 1..(Len(offsets) - 1) |-> offsets[i + 1] - offsets[i]]
            IN  /\ \A i \in 1..Len(diffs) : diffs[i] >= 0
                /\ \A i \in 1..Len(diffs) : diffs[i] = InstanceCount(p, i - 1)
                /\ Sum(diffs) = Len(p.entities)

\* C5: the instance write indices computed for a pipeline with n entities
\* are a permutation of 0..n-1 in which the entities of batch b occupy the
\* contiguous range that starts at batch_offsets[b] and is as long as the
\* batch's instance count, entities of one batch in iteration order.
C5_InstanceIndicesGroupedByBatch ==
    q_pc = "encoded" =>
        \A k \in 1..Len(pipelines) :
            LET p == pipelines[k]
                n == Len(p.entities)
                \* entities of the same batch that come before entity i
                Rank(i) == Cardinality({j \in 1..(i - 1) :
                                           p.batch_per_entity[j] = p.batch_per_entity[i]})
            IN  /\ {InstanceWriteIndex(i) : i \in 1..n} = 0..(n - 1)
                /\ \A i \in 1..n :
                      InstanceWriteIndex(i) =
                          p.batch_offsets[p.batch_per_entity[i] + 1] + Rank(i)

\* C6: a pipeline with three entities E1, E2, E3 (in iteration order) whose
\* batch keys are 7, 9, 7 gets batch_per_entity = [0,1,0] and
\* batch_offsets = [0,2,3], and the instance write indices of (E1,E2,E3)
\* are (0,2,1).
C6_Scenario797 ==
    (/\ q_pc = "encoded"
     /\ Len(pipelines) = 1
     /\ pipelines[1].entities = <<1, 2, 3>>
     /\ <<KeyBytes(1), KeyBytes(2), KeyBytes(3)>> = << <<7>>, <<9>>, <<7>> >>)
        => /\ pipelines[1].batch_per_entity = <<0, 1, 0>>
           /\ pipelines[1].batch_offsets = <<0, 2, 3>>
           /\ <<InstanceWriteIndex(1), InstanceWriteIndex(2), InstanceWriteIndex(3)>> = <<0, 2, 1>>

(***************************************************************************)
(* Frame properties                                                        *)
(***************************************************************************)
\* The storage has no cover for the layout.
Uncovered(layout) == encoders_for_props(LayoutPropsOf(layout), registry).result = None
\* The world with the entities of uncovered layouts taken out of rendering.
WithoutUncovered ==
    [e \in Entities |->
        IF world[e].layout # 0 /\ Uncovered(world[e].layout)
        THEN [world[e] EXCEPT !.layout = 0]
        ELSE world[e]]
\* The evaluation of that world.
EvaluatedWithoutUncovered ==
    evaluate_batches(resolve_world(WithoutUncovered, 1, <<>>), batch_encoders, <<>>, {}, <<>>)

\* C11: a resolved pipeline whose layout the registered encoders cannot cover
\* is left out of the frame's evaluated pipelines, and the other pipelines of
\* the frame are batched and encoded exactly as if it were absent.
C11_UnservablePipelineSkipped ==
    LET absent == EvaluatedWithoutUncovered
    IN  /\ Evaluated =>
              /\ absent.panic = ""
              /\ \A k \in 1..Len(pipelines) : \A i \in 1..Len(pipelines[k].entities) :
                    ~Uncovered(world[pipelines[k].entities[i]].layout)
              /\ \E counts \in CountChoices(absent.evaluated) :
                    pipelines = [i \in 1..Len(absent.evaluated) |->
                                    EvaluatedPipeline(absent.evaluated[i], counts[i])]
        /\ q_pc = "encoded" => Some(q_indices) = encode_pipelines(pipelines, <<>>)
        /\ q_pc = "panicked" => absent.panic # ""
C11_Witness ==
    /\ q_pc = "encoded"
    /\ registry = Uniform(<< <<"a">> >>)
    /\ world[1].layout = 2 /\ world[2].layout = 1 /\ world[3].layout = 1
    /\ world[2].key # world[3].key
    /\ Len(pipelines) = 1
    /\ pipelines[1].entities = <<2, 3>>
    /\ pipelines[1].batch_per_entity = <<0, 1>>
    /\ q_indices = <<0, 1>>
    /\ warnings # <<>>

\* Number of warnings logged for a layout.
WarningsFor(layout) == Cardinality({i \in 1..Len(warnings) : warnings[i] = layout})
\* C12: across any number of frames and pipelines, the warning for an
\* unservable layout is emitted exactly once per distinct layout.
C12_WarnedOncePerLayout ==
    \A layout \in 1..MaxPipelines :
        /\ WarningsFor(layout) <= 1
        /\ (frame > 0 /\ q_pc # "panicked" /\ Uncovered(layout)
                /\ \E e \in Entities : world[e].layout = layout)
              => WarningsFor(layout) = 1

(***************************************************************************)
(* Strided buffers (buffer.rs)                                             *)
(***************************************************************************)
\* The shader inputs of the model: three that live in the binary buffer and
\* one texture, which lives in the descriptor buffer.
BufferProps == {"x", "y", "z"}
DescProps == {"t"}

\* ShaderInput::ubo_size: the size of the property's type in the uniform
\* buffer (the dispatch to the type's ubo_size, size_of of its BufferEncoding
\* representation); 0 for data outside of the binary buffer.
ubo_size(prop) ==
    CASE prop = "x" -> 1
      [] prop = "y" -> 2
      [] prop = "z" -> 1
      [] OTHER -> 0

MaxStride == 3
MaxElems == 2
MaxLayoutProps == 2

\* The names of a layout's properties, in layout order.
PropsOf(layout) == [i \in 1..Len(layout.props) |-> layout.props[i].prop]
\* The bytes of one element that a layout property occupies.
Region(layout_prop) ==
    layout_prop.absolute_offset .. (layout_prop.absolute_offset + ubo_size(layout_prop.prop) - 1)

\* Every BufferLayout value over the model's properties: each property at most
\* once, at any offset, with any padded size.
AnyLayouts ==
    UNION {{[props |-> [i \in 1..Len(names) |->
                          [prop |-> names[i], absolute_offset |-> offsets[i]]],
             padded_size |-> padded_size] :
               offsets \in [1..Len(names) -> 0..(MaxStride - 1)],
               padded_size \in 0..MaxStride} :
           names \in DupFreeSeqs(BufferProps, MaxLayoutProps)}

\* BufferLayout's contract (renderable.rs: "the type should guarantee that all
\* properties are non-overlapping"): the regions are disjoint and lie inside
\* the padded size.
WellFormed(layout) ==
    /\ \A i \in 1..Len(layout.props) :
          layout.props[i].absolute_offset + ubo_size(layout.props[i].prop) <= layout.padded_size
    /\ \A i, j \in 1..Len(layout.props) :
          i # j => Region(layout.props[i]) \cap Region(layout.props[j]) = {}
BufferLayouts == {layout \in AnyLayouts : WellFormed(layout)}
DescriptorsLayouts == {<<>>, <<"t">>}

\* BufferStride::from_layout: None when its assertion fails; otherwise one
\* stride per layout property, in layout order.
from_layout(len, layout) ==
    LET stride == layout.padded_size
    IN  IF ~(stride > 0 /\ len % stride = 0) THEN None
        ELSE Some([i \in 1..Len(layout.props) |->
                     [begin            |-> layout.props[i].absolute_offset,
                      stride           |-> stride,
                      elem_count       |-> len \div stride,
                      contiguous_count |-> ubo_size(layout.props[i].prop)]])

\* BufferStride::from_ones: None when its assertion fails; otherwise `stride`
\* strides one element wide.
from_ones(len, stride) ==
    IF ~(stride > 0 /\ len % stride = 0) THEN None
    ELSE Some([offset \in 1..stride |->
                 [begin            |-> offset - 1,
                  stride           |-> stride,
                  elem_count       |-> len \div stride,
                  contiguous_count |-> 1]])

\* EncodeBufferBuilder::create: the byte strides are collected first, then
\* the descriptor strides; the result names the assertion that failed.
create(layout, descs, raw_len, desc_len) ==
    LET num_descriptors == Len(descs)
        bin == from_layout(raw_len, layout)
        desc == from_ones(desc_len, num_descriptors)
    IN  IF bin = None THEN [panic |-> "from_layout", builder |-> None]
        ELSE IF desc = None THEN [panic |-> "from_ones", builder |-> None]
        ELSE [panic |-> "",
              builder |-> Some([bin_strides |-> Unwrap(bin), desc_strides |-> Unwrap(desc)])]

\* The property tuples of the encoders: build takes per-instance encoders
\* (no descriptors); the encoders handed to build_batch carry a texture.
MaxEncoded == 2
InstanceEncoders == UNION {[1..k -> BufferProps] : k \in 1..MaxEncoded}
BatchEncoders ==
    {props \in UNION {[1..k -> BufferProps \cup DescProps] : k \in 1..MaxEncoded} :
        \E k \in 1..Len(props) : props[k] \in DescProps}

\* The strides (by position in the builder) that live writers hold.
HeldBin == UNION {Range(w.bin_strides) : w \in writers}
HeldDesc == UNION {Range(w.desc_strides) : w \in writers}

\* The k-th declared property is looked up by position in the layout
\* (0: not a part of the layout).
StrideIndicesByLayoutOrder(in_layout, props) ==
    [k \in 1..Len(props) |-> IF k <= Len(in_layout) THEN k ELSE 0]
StrideIndices(in_layout, props) ==
    [k \in 1..Len(props) |-> Position(in_layout, props[k])]

\* try_borrow_mut over the strides in turn: the first index that is already
\* borrowed, by a live writer or earlier in the same call; 0 when none is.
FirstBorrowedInCall(indices, held) ==
    LET taken(k) == \E j \in 1..(k - 1) : indices[j] = indices[k]
    IN  IF \E k \in 1..Len(indices) : taken(k)
        THEN CHOOSE k \in 1..Len(indices) : taken(k) /\ \A j \in 1..(k - 1) : ~taken(j)
        ELSE 0
FirstBorrowed(indices, held) ==
    LET taken(k) == indices[k] \in held \/ \E j \in 1..(k - 1) : indices[j] = indices[k]
    IN  IF \E k \in 1..Len(indices) : taken(k)
        THEN CHOOSE k \in 1..Len(indices) : taken(k) /\ \A j \in 1..(k - 1) : ~taken(j)
        ELSE 0

\* EncodeBufferBuilder::build: the chained iterators look a property up and
\* borrow its stride before the next property is looked up.
build_writer(props) ==
    LET indices == StrideIndices(PropsOf(buffer_layout), props)
        missing == Position(indices, 0)
        known == IF missing = 0 THEN indices ELSE SubSeq(indices, 1, missing - 1)
        borrowed == FirstBorrowed(known, HeldBin)
    IN  IF borrowed # 0
        THEN [panic |-> "Trying to encode the same property multiple times", writer |-> None]
        ELSE IF missing # 0
        THEN [panic |-> "Trying to encode a prop that is not a part of provided buffer layout",
              writer |-> None]
        ELSE [panic |-> "",
              writer |-> Some([kind |-> "instance", props |-> props,
                               bin_strides |-> indices, desc_strides |-> <<>>])]

\* EncodeBufferBuilder::build_batch: properties found in neither layout are
\* filtered out; the count is compared only when debug assertions are on.
build_batch_writer(props, debug_assertions) ==
    LET found(in_layout) ==
            SelectSeq(StrideIndices(in_layout, props), LAMBDA i : i # 0)
        bin_stride_indices == found(PropsOf(buffer_layout))
        desc_stride_indices == found(descs_layout)
    IN  IF FirstBorrowed(bin_stride_indices, HeldBin) # 0
           \/ FirstBorrowed(desc_stride_indices, HeldDesc) # 0
        THEN [panic |-> "Trying to encode the same property multiple times", writer |-> None]
        ELSE IF debug_assertions
                /\ Len(bin_stride_indices) + Len(desc_stride_indices) # Len(props)
        THEN [panic |-> "Trying to encode a prop that is not a part of provided buffer or descriptors layout",
              writer |-> None]
        ELSE [panic |-> "",
              writer |-> Some([kind |-> "batch", props |-> props,
                               bin_strides |-> bin_stride_indices,
                               desc_strides |-> desc_stride_indices])]

\* The bytes an encoder emits for a property of the value it encodes, and the
\* descriptor it emits for a texture.
Values == {1, 2}
Emitted(prop, value) ==
    CASE prop = "x" -> <<value>>
      [] prop = "y" -> <<10 + value, 20 + value>>
      [] prop = "z" -> <<30 + value>>
      [] OTHER -> <<>>
EncodedDescriptor(prop, value) == [texture |-> value]

\* for_each_buffer / for_each_descriptor: the parts of an encoded value, in
\* the declaration order of the properties; a part's index counts the parts
\* of its own sort.
BufferParts(props) == SelectSeq(props, LAMBDA prop : prop \in BufferProps)
DescriptorParts(props) == SelectSeq(props, LAMBDA prop : prop \in DescProps)

\* BufferStride::get_mut: the positions of the slice handed out for an index.
get_mut_unstrided(stride, idx) ==
    LET first == stride.begin + idx
    IN  first .. (first + stride.contiguous_count - 1)
get_mut(stride, idx) ==
    LET first == stride.begin + stride.stride * idx
    IN  first .. (first + stride.contiguous_count - 1)

\* The for_each_buffer closure of a write: part k goes to strides[k].write_at.
\* Indexing past the writer's strides and copy_from_slice with a slice of
\* another length panic; the parts before stay written.
RECURSIVE WriteBytes(_, _, _, _, _)
WriteBytes(k, w, index, value, acc) ==
    LET parts == BufferParts(w.props)
    IN  IF k > Len(parts) \/ acc.panic # "" THEN acc
        ELSE IF k > Len(w.bin_strides)
        THEN [acc EXCEPT !.panic = "index out of bounds"]
        ELSE LET stride == Unwrap(builder).bin_strides[w.bin_strides[k]]
                 bytes == Emitted(parts[k], value)
             IN  IF Len(bytes) # stride.contiguous_count
                 THEN [acc EXCEPT !.panic = "copy_from_slice"]
                 ELSE WriteBytes(k + 1, w, index, value,
                        [acc EXCEPT !.raw_buffer = write_at(@, stride, index, bytes),
                                    !.log = @ \cup {[stride |-> w.bin_strides[k],
                                                      index |-> index,
                                                      range |-> get_mut(stride, index)]}])

\* The for_each_descriptor closure of a write: part k goes to
\* desc_strides[k].move_at.
RECURSIVE WriteDescriptors(_, _, _, _, _)
WriteDescriptors(k, w, index, value, acc) ==
    LET parts == DescriptorParts(w.props)
    IN  IF k > Len(parts) \/ acc.panic # "" THEN acc
        ELSE IF k > Len(w.desc_strides)
        THEN [acc EXCEPT !.panic = "index out of bounds"]
        ELSE LET stride == Unwrap(builder).desc_strides[w.desc_strides[k]]
             IN  WriteDescriptors(k + 1, w, index, value,
                    [acc EXCEPT !.desc_buffer =
                        write_at(@, stride, index, <<EncodedDescriptor(parts[k], value)>>)])

\* EncodeBuffer::write of BufferWriter and of BatchBufferWriter.
write_value(w, index, value) ==
    WriteDescriptors(1, w, index, value,
        WriteBytes(1, w, index, value,
            [raw_buffer |-> raw_buffer, desc_buffer |-> desc_buffer,
             log |-> write_log, panic |-> ""]))

\* The indices every stride of a writer can take.
InRange(w) ==
    {index \in 0..(MaxElems - 1) :
        /\ \A k \in 1..Len(w.bin_strides) :
              index < Unwrap(builder).bin_strides[w.bin_strides[k]].elem_count
        /\ \A k \in 1..Len(w.desc_strides) :
              index < Unwrap(builder).desc_strides[w.desc_strides[k]].elem_count}

(***************************************************************************)
(* SpecBuffer: a builder over a layout that keeps BufferLayout's contract, *)
(* its writers and their writes.  SpecStrides: create over any layout.     *)
(***************************************************************************)
MaxCalls == 4
Called(op, props, index, value) ==
    /\ last_call' = Some([op |-> op, props |-> props, index |-> index, value |-> value])
    /\ calls' = calls + 1
Live == buf_pc = "created" /\ calls < MaxCalls

\* The state before create.
BuilderNew ==
    /\ builder = None
    /\ writers = {}
    /\ write_log = {}
    /\ last_call = None
    /\ calls = 0
    /\ buf_pc = "new"

\* SpecBuffer starts from buffers sized as PipelineEncodingSystem::run sizes
\* them: room for a number of elements of the layout and of its descriptors.
InitBuffer ==
    /\ buffer_layout \in BufferLayouts
    /\ descs_layout \in DescriptorsLayouts
    /\ \E elems \in 0..MaxElems :
          /\ raw_buffer = [pos \in 1..(elems * buffer_layout.padded_size) |-> 0]
          /\ desc_buffer = [pos \in 1..(elems * Len(descs_layout)) |-> None]
    /\ BuilderNew
    /\ MatchIdle
    /\ CoverIdle
    /\ BatchIdle
    /\ ResolverIdle
    /\ EnsureIdle
    /\ AccessIdle
    /\ EncodeIdle
    /\ HelperIdle
\* SpecStrides starts from any layout and buffers of any length.
InitStrides ==
    /\ buffer_layout \in AnyLayouts
    /\ descs_layout \in DescriptorsLayouts
    /\ raw_buffer \in {[pos \in 1..len |-> 0] : len \in 0..(MaxElems * MaxStride)}
    /\ desc_buffer \in {[pos \in 1..len |-> None] : len \in 0..MaxElems}
    /\ BuilderNew
    /\ MatchIdle
    /\ CoverIdle
    /\ BatchIdle
    /\ ResolverIdle
    /\ EnsureIdle
    /\ AccessIdle
    /\ EncodeIdle
    /\ HelperIdle

EncodeBufferBuilder_create ==
    /\ buf_pc = "new"
    /\ LET made == create(buffer_layout, descs_layout, Len(raw_buffer), Len(desc_buffer))
       IN  /\ builder' = made.builder
           /\ buf_pc' = IF made.panic = "" THEN "created" ELSE "panic: " \o made.panic
    /\ UNCHANGED <<last_call, calls>>
    /\ UNCHANGED <<buffer_layout, descs_layout, raw_buffer, desc_buffer, writers, write_log,
                   restOfBuffer>>

Built(made, op, props) ==
    /\ writers' = IF made.panic = "" THEN writers \cup {Unwrap(made.writer)} ELSE writers
    /\ buf_pc' = IF made.panic = "" THEN buf_pc ELSE "panic: " \o made.panic
    /\ Called(op, props, 0, 0)
    /\ UNCHANGED <<buffer_layout, descs_layout, raw_buffer, desc_buffer, builder, write_log,
                   restOfBuffer>>

EncodeBufferBuilder_build(props) ==
    /\ Live
    /\ Built(build_writer(props), "build", props)

EncodeBufferBuilder_build_batch(props) ==
    /\ Live
    /\ \E debug_assertions \in BOOLEAN :
          Built(build_batch_writer(props, debug_assertions), "build_batch", props)

EncodeBuffer_write(w, index, value) ==
    /\ Live
    /\ w \in writers
    /\ index \in InRange(w)
    /\ LET written == write_value(w, index, value)
       IN  /\ raw_buffer' = written.raw_buffer
           /\ desc_buffer' = written.desc_buffer
           /\ write_log' = written.log
           /\ buf_pc' = IF written.panic = "" THEN buf_pc ELSE "panic: " \o written.panic
    /\ Called("write", w.props, index, value)
    /\ UNCHANGED <<buffer_layout, descs_layout, builder, writers,
                   restOfBuffer>>

\* The writer goes out of scope: its RefMuts release the strides.
drop(w) ==
    /\ Live
    /\ w \in writers
    /\ writers' = writers \ {w}
    /\ Called("drop", w.props, 0, 0)
    /\ UNCHANGED <<buffer_layout, descs_layout, raw_buffer, desc_buffer, builder, write_log,
                   buf_pc, restOfBuffer>>

NextBuffer ==
    \/ EncodeBufferBuilder_create
    \/ \E props \in InstanceEncoders : EncodeBufferBuilder_build(props)
    \/ \E props \in BatchEncoders : EncodeBufferBuilder_build_batch(props)
    \/ \E w \in writers, index \in 0..(MaxElems - 1), value \in Values :
          EncodeBuffer_write(w, index, value)
    \/ \E w \in writers : drop(w)
SpecBuffer == InitBuffer /\ [][NextBuffer]_vars
SpecStrides == InitStrides /\ [][EncodeBufferBuilder_create]_vars

(***************************************************************************)
(* Buffer properties                                                       *)
(***************************************************************************)
Created == buf_pc = "created"
\* The last call was `op` and returned.
Returned(op) == Created /\ IsSome(last_call) /\ Unwrap(last_call).op = op
\* The layout entry of a property.
LayoutProp(prop) == buffer_layout.props[Position(PropsOf(buffer_layout), prop)]
\* buffer[from .. from + size), positions counted from 0.
Bytes(from, size) == SubSeq(raw_buffer, from + 1, from + size)

PropertyBytes ==
    {pos \in 0..(Len(raw_buffer) - 1) :
        \E i \in 1..Len(buffer_layout.props) :
            (pos % buffer_layout.padded_size) \in Region(buffer_layout.props[i])}
\* The byte positions written since create.
WrittenBytes == UNION {entry.range : entry \in write_log}
\* Every stride has been written at every index.
PassComplete ==
    /\ Created
    /\ \A k \in 1..Len(buffer_layout.props) :
          \A index \in 0..((Len(raw_buffer) \div buffer_layout.padded_size) - 1) :
              \E entry \in write_log : entry.stride = k /\ entry.index = index

NeededBin(props) == Range(StrideIndices(PropsOf(buffer_layout), props)) \ {0}
NeededDesc(call) ==
    IF call.op = "build" THEN {}
    ELSE Range(StrideIndices(descs_layout, call.props)) \ {0}
\* The writer a returned build or build_batch added.
BuiltWriter(call) ==
    {w \in writers :
        /\ w.props = call.props
        /\ w.kind = IF call.op = "build" THEN "instance" ELSE "batch"}
\* Every property of the call has a stride, and no two share one.
Buildable(call) ==
    /\ \A k \in 1..Len(call.props) :
          \/ Position(PropsOf(buffer_layout), call.props[k]) # 0
          \/ call.op = "build_batch" /\ Position(descs_layout, call.props[k]) # 0
    /\ \A j, k \in 1..Len(call.props) : j # k => call.props[j] # call.props[k]

Overlapping(layout) ==
    \E i, j \in 1..Len(layout.props) :
        i # j /\ Region(layout.props[i]) \cap Region(layout.props[j]) # {}

LayoutKeys == {"k1", "k2"}
EncodingLayouts == {"A", "B"}
BatchValues == {"b1", "b2"}
Components ==
    [key : LayoutKeys, layout : {None} \cup {Some(l) : l \in EncodingLayouts}, batch : BatchValues]

\* The hash maps of the cache layer are sets of [key, value] entries.
Occupied(map, key) == \E entry \in map : entry.key = key
Get(map, key) == (CHOOSE entry \in map : entry.key = key).value
\* An insert that leaves the map as it was.
InsertNothing(map, key, value) == map
Insert(map, key, value) == map \cup {[key |-> key, value |-> value]}

\* ResolverCacheLayer::new, and the state clear() leaves.
NewCacheLayer == [layout_cache |-> {}, batch_index |-> {}, next_layout |-> 0, next_batch |-> 0]
\* A clear that keeps the caches and the counters.
clear_nothing(layer) == layer
clear(layer) == NewCacheLayer

\* ResolverCacheLayer::resolve_batch.
resolve_batch(layer, component) ==
    IF Occupied(layer.batch_index, component.batch)
    THEN [layer |-> layer, idx |-> Get(layer.batch_index, component.batch)]
    ELSE [layer |-> [layer EXCEPT !.batch_index = Insert(@, component.batch, layer.next_batch),
                                  !.next_batch = @ + 1],
          idx |-> layer.next_batch]

\* The index a new layout is cached under.
FirstIndex(layer) == 0
NewIndex(layer) == layer.next_layout

\* ResolverCacheLayer::resolve (CachedLayoutResolver): the resolution, the
\* layer after it and the calls of the inner resolve function so far.
CachedLayoutResolver_resolve(layer, component, inner) ==
    IF Occupied(layer.layout_cache, component.key)
    THEN LET cached == Get(layer.layout_cache, component.key)
         IN  IF IsSome(cached)
             THEN LET b == resolve_batch(layer, component)
                  IN  [resolution |-> [tag |-> "ReuseLayout", index |-> Unwrap(cached),
                                       batch |-> b.idx],
                       layer |-> b.layer, calls |-> inner]
             ELSE [resolution |-> [tag |-> "Skip"], layer |-> layer, calls |-> inner]
    ELSE LET called == Append(inner, [key |-> component.key, layout |-> component.layout])
         IN  IF IsSome(component.layout)
             THEN LET inserted ==
                          [layer EXCEPT !.layout_cache =
                                            Insert(@, component.key, Some(NewIndex(layer))),
                                        !.next_layout = @ + 1]
                      b == resolve_batch(inserted, component)
                  IN  [resolution |-> [tag |-> "NewLayout", layout |-> Unwrap(component.layout),
                                       batch |-> b.idx],
                       layer |-> b.layer, calls |-> called]
             ELSE [resolution |-> [tag |-> "Skip"],
                   layer |-> [layer EXCEPT !.layout_cache = Insert(@, component.key, None)],
                   calls |-> called]

\* The loop of PipelinesResolver::resolve over the joined entities, in
\* ascending id.
RECURSIVE ResolveEntities(_, _)
ResolveEntities(e, acc) ==
    IF e > MaxEntities \/ acc.panic # "" THEN acc
    ELSE IF anchors[e] = None THEN ResolveEntities(e + 1, acc)
    ELSE LET r == CachedLayoutResolver_resolve(acc.layer, Unwrap(anchors[e]), acc.calls)
             added == [id |-> e, batch |-> r.resolution.batch]
             next == [acc EXCEPT !.layer = r.layer, !.calls = r.calls]
         IN  CASE r.resolution.tag = "Skip" -> ResolveEntities(e + 1, next)
               [] r.resolution.tag = "NewLayout" ->
                    ResolveEntities(e + 1,
                        [next EXCEPT !.pipelines =
                            Append(@, [layout |-> r.resolution.layout, entities |-> <<added>>])])
               [] r.resolution.tag = "ReuseLayout" ->
                    IF r.resolution.index + 1 > Len(acc.pipelines)
                    THEN [next EXCEPT !.panic = "ReuseLayout index is incorrect"]
                    ELSE ResolveEntities(e + 1,
                            [next EXCEPT !.pipelines[r.resolution.index + 1].entities =
                                             Append(@, added)])

MaxPasses == 2
InitResolver ==
    /\ anchors \in [Entities -> {None} \cup {Some(c) : c \in Components}]
    /\ cache_layer = NewCacheLayer
    /\ r_pipelines = <<>>
    /\ inner_calls = <<>>
    /\ passes = 0
    /\ r_pc = "ok"
    /\ MatchIdle
    /\ CoverIdle
    /\ BatchIdle
    /\ BufferIdle
    /\ EnsureIdle
    /\ AccessIdle
    /\ EncodeIdle
    /\ HelperIdle

\* PipelinesResolver::resolve: one pass over the anchor components, then clear.
PipelinesResolver_resolve ==
    /\ r_pc = "ok"
    /\ passes < MaxPasses
    /\ LET pass == ResolveEntities(1, [layer |-> cache_layer, pipelines |-> <<>>,
                                       calls |-> <<>>, panic |-> ""])
       IN  /\ r_pipelines' = pass.pipelines
           /\ inner_calls' = pass.calls
           /\ cache_layer' = IF pass.panic = "" THEN clear(pass.layer) ELSE pass.layer
           /\ r_pc' = IF pass.panic = "" THEN "ok" ELSE "panic: " \o pass.panic
    /\ passes' = passes + 1
    /\ UNCHANGED <<anchors, restOfResolver>>

SpecResolver == InitResolver /\ [][PipelinesResolver_resolve]_vars

(***************************************************************************)
(* Resolver properties                                                     *)
(***************************************************************************)
\* The entities with an anchor component, and their components.
Anchored == {e \in Entities : anchors[e] # None}
Anchor(e) == Unwrap(anchors[e])
\* The first entity, in iteration order, with the key of e.
FirstOfKey(e) ==
    CHOOSE f \in Anchored :
        /\ Anchor(f).key = Anchor(e).key
        /\ \A g \in Anchored : Anchor(g).key = Anchor(e).key => f <= g
\* The entities that open a pipeline: the first of a key, with a layout.
Openers == {e \in Anchored : FirstOfKey(e) = e /\ IsSome(Anchor(e).layout)}
\* The ids of a set of entities in ascending order.
Ascending(S) ==
    [i \in 1..Cardinality(S) |-> CHOOSE e \in S : Cardinality({f \in S : f < e}) = i - 1]
\* The ids a returned pipeline holds.
IdsOf(pipeline) == [i \in 1..Len(pipeline.entities) |-> pipeline.entities[i].id]

\* C17: a resolve pass returns one pipeline per distinct key for which the
\* inner resolver returned a layout, in the order of the keys' first
\* occurrence; every entity of such a key is in that pipeline and in no
\* other, and the entities of a key that resolved to nothing are in none.
C17_OnePipelinePerResolvedKey ==
    passes > 0 =>
        LET openers == Ascending(Openers)
        IN  /\ r_pc = "ok"
            /\ Len(r_pipelines) = Len(openers)
            /\ \A i \in 1..Len(openers) :
                  /\ r_pipelines[i].layout = Unwrap(Anchor(openers[i]).layout)
                  /\ IdsOf(r_pipelines[i])
                       = Ascending({e \in Anchored : FirstOfKey(e) = openers[i]})
C17_Witness ==
    /\ passes = 1
    /\ Anchored = Entities
    /\ Anchor(1).key = "k2" /\ Anchor(2).key = "k1" /\ Anchor(3).key = "k2"
    /\ Len(r_pipelines) = 2
    /\ r_pipelines[1].layout = "B" /\ IdsOf(r_pipelines[1]) = <<1, 3>>
    /\ r_pipelines[2].layout = "A" /\ IdsOf(r_pipelines[2]) = <<2>>

\* C18: the key -> pipeline-index cache persists across frames: in a second
\* pass over the unchanged entities the inner resolve function is not invoked
\* for a key the pass before resolved to a pipeline.
C18_CachePersistsAcrossFrames ==
    passes >= 2 => \A i \in 1..Len(inner_calls) : inner_calls[i].layout = None

(***************************************************************************)
(* SpecEnsure: ensure_buffer (renderable.rs)                               *)
(***************************************************************************)
MaxSize == 6

\* ensure_buffer: the buffer afterwards and the value returned.  The filter
\* keeps a buffer whose size is below min_size; the buffer is replaced when
\* nothing is kept.
ensure_buffer(buffer, min_size, padding) ==
    LET kept == IF IsSome(buffer) /\ Unwrap(buffer) < min_size THEN buffer ELSE None
    IN  IF kept = None
        THEN [buffer |-> Some(min_size + padding), returned |-> TRUE]
        ELSE [buffer |-> buffer, returned |-> FALSE]

InitEnsure ==
    /\ EnsureIdle
    /\ MatchIdle
    /\ CoverIdle
    /\ BatchIdle
    /\ BufferIdle
    /\ ResolverIdle
    /\ AccessIdle
    /\ EncodeIdle
    /\ HelperIdle

\* A call of ensure_buffer as PipelineEncodingSystem::run makes it: without
\* padding (globals buffer) or with half the size on top (batch, instances).
PipelineEncodingSystem_ensure_buffer(min_size, padding) ==
    /\ LET ensured == ensure_buffer(gpu_buffer, min_size, padding)
       IN  /\ gpu_buffer' = ensured.buffer
           /\ last_ensure' = Some([before |-> gpu_buffer, min_size |-> min_size,
                                   padding |-> padding, returned |-> ensured.returned])
    /\ UNCHANGED restOfEnsure

NextEnsure ==
    \E min_size \in 0..MaxSize :
        \/ PipelineEncodingSystem_ensure_buffer(min_size, 0)
        \/ PipelineEncodingSystem_ensure_buffer(min_size, min_size \div 2)
SpecEnsure == InitEnsure /\ [][NextEnsure]_vars

\* C19: ensure_buffer reallocates exactly when the buffer is absent or
\* smaller than the required size and keeps a buffer that meets it; after it
\* returns the buffer is at least of the required size, and a newly allocated
\* batch or instance buffer has size required + required / 2.
C19_EnsureBufferReallocatesWhenUndersized ==
    IsSome(last_ensure) =>
        LET call == Unwrap(last_ensure)
            undersized == call.before = None \/ Unwrap(call.before) < call.min_size
        IN  /\ call.returned <=> undersized
            /\ ~undersized => gpu_buffer = call.before
            /\ IsSome(gpu_buffer) /\ Unwrap(gpu_buffer) >= call.min_size
            /\ (call.returned /\ call.padding = call.min_size \div 2)
                  => gpu_buffer = Some(call.min_size + call.min_size \div 2)

(***************************************************************************)
(* SpecAccess: EncodersDataAccessor (renderable.rs)                        *)
(***************************************************************************)
\* The resource lists an encoder or the inner accessor declares.
ResourceLists == {<<>>, <<"r1">>, <<"r2">>}
Accessors == [reads : ResourceLists, writes : ResourceLists]

\* chain_map_encoders!: the mapper's lists of the globals, batch and instance
\* encoders, chained in this order; the mapper is the name of the method it
\* calls on an encoder.
RECURSIVE Chain(_)
Chain(lists) == IF lists = <<>> THEN <<>> ELSE Head(lists) \o Chain(Tail(lists))
chain_map_encoders(bunch, mapper) ==
    Chain([i \in 1..Len(bunch.globals) |-> bunch.globals[i][mapper]])
        \o Chain([i \in 1..Len(bunch.batch) |-> bunch.batch[i][mapper]])
        \o Chain([i \in 1..Len(bunch.instance) |-> bunch.instance[i][mapper]])

\* EncodersDataAccessor::reads and ::writes.
Accessor_reads ==
    chain_map_encoders(acc_encoders, "reads") \o acc_inner.reads
Accessor_writes ==
    chain_map_encoders(acc_encoders, "reads") \o acc_inner.reads

InitAccess ==
    /\ acc_encoders \in [globals : {<<e>> : e \in Accessors},
                         batch : {<<e>> : e \in Accessors},
                         instance : {<<e>> : e \in Accessors}]
    /\ acc_inner \in Accessors
    /\ declared = None
    /\ MatchIdle
    /\ CoverIdle
    /\ BatchIdle
    /\ BufferIdle
    /\ ResolverIdle
    /\ EnsureIdle
    /\ EncodeIdle
    /\ HelperIdle

\* The scheduler asks the system's accessor for its reads and writes.
Accessor_declare ==
    /\ declared = None
    /\ declared' = Some([reads |-> Accessor_reads, writes |-> Accessor_writes])
    /\ UNCHANGED <<acc_encoders, acc_inner, restOfAccess>>

SpecAccess == InitAccess /\ [][Accessor_declare]_vars

\* The resources some encoder or the inner accessor declares under a field.
DeclaredBy(field) ==
    Range(acc_inner[field])
        \cup UNION {Range(acc_encoders[kind][1][field]) : kind \in {"globals", "batch", "instance"}}

\* C20: the reads declared to the scheduler are the reads of all encoders
\* and of the inner accessor; the writes declared are only resources that an
\* encoder or the inner accessor declares as written, so a resource that is
\* only read is never in the declared write set.
C20_DeclaredAccessMatchesEncoders ==
    IsSome(declared) =>
        /\ Range(Unwrap(declared).reads) = DeclaredBy("reads")
        /\ Range(Unwrap(declared).writes) \subseteq DeclaredBy("writes")

(***************************************************************************)
(* SpecSystem: the render group's per-pipeline encoding systems            *)
(***************************************************************************)
\* The encoders and the EncodingLayout of a pipeline: one byte property per
\* buffer and one descriptor slot for the globals and for the batches; the
\* globals encoder g owns the globals property and slot.
PipelineEncoders == [globals |-> <<"g">>, batch |-> batch_encoders, instance |-> <<"i">>]
OneProperty == [props |-> <<[prop |-> "x", absolute_offset |-> 0]>>, padded_size |-> 1]
PipelineLayout ==
    [globals_buffer      |-> OneProperty,
     globals_descriptors |-> <<"t">>,
     batch_buffer        |-> OneProperty,
     batch_descriptors   |-> <<"t">>,
     instances_buffer    |-> OneProperty]

\* EncoderPipeline::new and PipelineEncodingSystem::new.  Nothing in the
\* program ever adds to pipeline.batches.  rounds and invoked are the
\* history of the run: the batching rounds it entered and the encoders it
\* invoked in the encode passes.
new(pipeline) ==
    [pipeline                |-> [entities |-> pipeline.entities, batches |-> <<>>,
                                  globals_buffer |-> None, batch_buffer |-> None,
                                  instances_buffer |-> None,
                                  globals_descriptors |-> <<>>, batch_descriptors |-> <<>>],
     encoder_batch_writes    |-> <<>>,
     encoder_instance_writes |-> None,
     batch_keys_buffer       |-> <<>>,
     batches_by_key          |-> {},
     batch_per_entity        |-> <<>>,
     batch_offsets           |-> <<>>,
     rounds                  |-> <<>>,
     invoked                 |-> <<>>,
     pc                      |-> "new"]

\* The closure of PipelineEncodingSystem::instance_writes, driven over
\* batch_per_entity zipped with the entities: it advances the entries of
\* self.batch_offsets themselves.
RECURSIVE InstanceWriteOps(_, _, _, _)
InstanceWriteOps(batch_per_entity, entities, batch_offsets, ops) ==
    IF batch_per_entity = <<>> \/ entities = <<>>
    THEN [panic |-> "", batch_offsets |-> batch_offsets, ops |-> ops]
    ELSE LET batch == Head(batch_per_entity)
         IN  IF batch >= Len(batch_offsets)
             THEN [panic |-> "panic: index", batch_offsets |-> batch_offsets, ops |-> ops]
             ELSE InstanceWriteOps(Tail(batch_per_entity), Tail(entities),
                    [batch_offsets EXCEPT ![batch + 1] = @ + 1],
                    Append(ops, OpEncode(Head(entities), batch_offsets[batch + 1])))

\* PipelineEncodingSystem::instance_writes: the offsets are rebuilt from
\* pipeline.batches (one entry per batch up to its upper bound), then the
\* ops are drawn.
instance_writes(sys) ==
    LET batches == sys.pipeline.batches
        batch_offsets == [batch_id \in 1..Len(batches) |->
                             Sum([j \in 1..(batch_id - 1) |-> batches[j].instance_count])]
    IN  InstanceWriteOps(sys.batch_per_entity, sys.pipeline.entities, batch_offsets, <<>>)

\* One encode pass (steps 4 to 6 of run) over a buffer mapped for `size`
\* bytes: the builder is created over the mapped bytes and the descriptor
\* vector, then every encoder of the kind is invoked in turn with the ops.
\* The globals encoder that owns the descriptor slot moves its descriptor
\* into the descriptor stride at index 0; beyond the stride's element count
\* that is a debug assertion, and undefined without the assertions.
RECURSIVE InvokeEncoders(_, _, _, _, _, _, _)
InvokeEncoders(kind, encoders, i, ops, buffer_builder, debug_assertions, sys) ==
    IF i > Len(encoders) THEN sys
    ELSE LET elem_count == IF buffer_builder.bin_strides = <<>> THEN 0
                           ELSE buffer_builder.bin_strides[1].elem_count
             desc_elem_count == IF buffer_builder.desc_strides = <<>> THEN 0
                                ELSE buffer_builder.desc_strides[1].elem_count
             invoked == [sys EXCEPT !.invoked = Append(@, [kind |-> kind, encoder |-> i,
                                                             ops |-> ops,
                                                             elem_count |-> elem_count])]
             owns_slot == kind = "globals" /\ encoders[i] = "g"
         IN  IF owns_slot /\ 0 >= desc_elem_count
             THEN [invoked EXCEPT !.pc = IF debug_assertions THEN "panic: get_mut"
                                         ELSE "undefined"]
             ELSE InvokeEncoders(kind, encoders, i + 1, ops, buffer_builder, debug_assertions,
                    IF owns_slot
                    THEN [invoked EXCEPT !.pipeline.globals_descriptors[1] = "descriptor of g"]
                    ELSE invoked)
encode_pass(kind, buffer, size, props_layout, slots_layout, descriptors, ops, debug, sys) ==
    IF buffer = None \/ sys.pc # "ran" THEN sys
    \* with_buffer_write(..).unwrap(): mapping more than the buffer holds fails
    ELSE IF Unwrap(buffer) < size THEN [sys EXCEPT !.pc = "panic: map"]
    ELSE LET made == create(props_layout, slots_layout, size, Len(descriptors))
         IN  IF made.panic # "" THEN [sys EXCEPT !.pc = "panic: " \o made.panic]
             ELSE InvokeEncoders(kind, PipelineEncoders[kind], 1, ops, Unwrap(made.builder),
                                 debug, sys)

\* Steps 3 to 6 of PipelineEncodingSystem::run (renderable.rs:602-722): the
\* buffers are ensured, then the globals, the batches and the instances are
\* encoded.  Nothing resizes the descriptor vectors of the pipeline.
encode_passes(sys, debug_assertions) ==
    LET layout == PipelineLayout
        writes == Unwrap(sys.encoder_instance_writes)
        globals_buffer_size == layout.globals_buffer.padded_size
        batch_buffer_size == layout.batch_buffer.padded_size * Len(sys.encoder_batch_writes)
        instances_buffer_size == layout.instances_buffer.padded_size * Len(writes)
        globals_buffer == ensure_buffer(ensure_buffer(sys.pipeline.globals_buffer,
                                                      globals_buffer_size, 0).buffer,
                                        globals_buffer_size, 0).buffer
        batch_buffer == ensure_buffer(sys.pipeline.batch_buffer, batch_buffer_size,
                                      batch_buffer_size \div 2).buffer
        instances_buffer == ensure_buffer(sys.pipeline.instances_buffer, instances_buffer_size,
                                          instances_buffer_size \div 2).buffer
        ensured == [sys EXCEPT !.pipeline.globals_buffer = globals_buffer,
                               !.pipeline.batch_buffer = batch_buffer,
                               !.pipeline.instances_buffer = instances_buffer]
        globals == encode_pass("globals", globals_buffer, globals_buffer_size,
                               layout.globals_buffer, layout.globals_descriptors,
                               sys.pipeline.globals_descriptors, <<>>, debug_assertions, ensured)
        batch == encode_pass("batch", batch_buffer, batch_buffer_size,
                             layout.batch_buffer, layout.batch_descriptors,
                             sys.pipeline.batch_descriptors, sys.encoder_batch_writes,
                             debug_assertions, globals)
    IN  encode_pass("instance", instances_buffer, instances_buffer_size,
                    layout.instances_buffer, <<>>, <<>>, writes, debug_assertions, batch)

\* PipelineEncodingSystem::run.  The result carries the position the run
\* stopped at: "ran" at its end, the panic otherwise.
run(sys, debug_assertions) ==
    LET b == BatchingRounds(0, sys.pipeline.entities, batch_encoders,
                            BatchingStart(sys.batch_keys_buffer, {}), debug_assertions)
        batched == [sys EXCEPT !.batch_keys_buffer = b.batch_keys_buffer,
                               !.batches_by_key = b.batches_by_key,
                               !.batch_per_entity = b.batch_per_entity,
                               !.encoder_batch_writes = b.encoder_batch_writes,
                               !.rounds = b.rounds]
    IN  IF b.panic # "" THEN [batched EXCEPT !.pc = "panic: " \o b.panic]
        \* self.encoder_instance_writes.take().unwrap()
        ELSE IF sys.encoder_instance_writes = None THEN [batched EXCEPT !.pc = "panic: unwrap"]
        ELSE LET w == instance_writes(batched)
             IN  IF w.panic # ""
                 THEN [batched EXCEPT !.batch_offsets = w.batch_offsets,
                                      !.encoder_instance_writes = None,
                                      !.pc = w.panic]
                 ELSE encode_passes(
                        [batched EXCEPT !.batch_offsets = w.batch_offsets,
                                        !.encoder_instance_writes =
                                            Some(Unwrap(sys.encoder_instance_writes) \o w.ops),
                                        !.pc = "ran"],
                        debug_assertions)

\* DataDrivenRenderGroup::prepare: a new system for every resolved pipeline.
prepare ==
    /\ group_pc # "panicked"
    /\ LET resolved == resolve(1, <<>>)
       IN  systems' = [i \in 1..Len(resolved) |-> new(resolved[i])]
    /\ group_pc' = "prepared"
    /\ UNCHANGED <<worldVars, queryVars, matchVars, coverVars, extVars>>

\* The dispatcher draw_inline builds runs a system of the group.  The build
\* decides whether debug assertions are compiled in.
PipelineEncodingSystem_run(i, debug_assertions) ==
    /\ group_pc = "prepared"
    /\ i \in 1..Len(systems)
    /\ systems[i].pc = "new"
    /\ systems' = [systems EXCEPT ![i] = run(systems[i], debug_assertions)]
    /\ UNCHANGED <<group_pc, worldVars, queryVars, matchVars, coverVars, extVars>>

\* DataDrivenRenderGroup::draw_inline is left by a panic: the panic of a
\* system comes out of run_now (systems the dispatcher runs on other threads
\* may have run in the meantime, the others never run), and after a dispatch
\* without a panic the function ends in unimplemented!().
Panicked(sys) == sys.pc \notin {"new", "ran"}
Unwinding ==
    \/ \E i \in 1..Len(systems) : Panicked(systems[i])
    \/ \A i \in 1..Len(systems) : systems[i].pc = "ran"
draw_inline_unwind ==
    /\ group_pc = "prepared"
    /\ Unwinding
    /\ group_pc' = "panicked"
    /\ UNCHANGED <<systems, worldVars, queryVars, matchVars, coverVars, extVars>>

NextSystem ==
    \/ prepare
    \/ \E i \in 1..MaxPipelines, debug_assertions \in BOOLEAN :
          PipelineEncodingSystem_run(i, debug_assertions)
    \/ draw_inline_unwind
SpecSystem == Init /\ [][NextSystem]_vars

(***************************************************************************)
(* SpecEncode: the dynamic encoders.  A dyn encoder is handed a LazyFetch, *)
(* fetches the system data of its encoder type T through it and runs T's   *)
(* encode: a looping encoder runs its mapper over the ops, a globals       *)
(* encoder encodes once.  The writer records the calls of write; where a   *)
(* strided writer puts the bytes is the matter of SpecBuffer.              *)
(***************************************************************************)
MaxOps == 2
EncodedEntities == 1..2
WriteIndices == 0..1
EncodeKinds == {"instance", "batch", "key", "globals"}
\* The declared tuple of properties P1..Pk of an encoder.
PropertyTuples == {<<"x">>, <<"x", "y">>}
\* EncProperty::fallback of a property.
fallback(prop) == CASE prop = "x" -> 100 [] prop = "y" -> 200 [] OTHER -> 0
\* EncProperties::fallback of a tuple: ($($from::fallback()),*,)
tuple_fallback(props) == [i \in 1..Len(props) |-> fallback(props[i])]

\* The closure the encoder passes to EncodeLoop::run, element by element:
\* "value" derives the element from the component and returns None without
\* it, "absent" returns None, "const" returns a value of its own.
MapperModes == {"value", "absent", "const"}
mapper(modes, component) ==
    [i \in 1..Len(modes) |->
        CASE modes[i] = "value" -> IF component = None THEN None
                                   ELSE Some(10 * Unwrap(component) + i)
          [] modes[i] = "absent" -> None
          [] OTHER -> Some(50 + i)]
\* The closure passed to EncodeKeyLoop::run returns the key itself.
key_mapper(component) == IF component = None THEN 0 ELSE Unwrap(component)

\* <A as EncodingValue>::resolve for one shader input: optional.unwrap_or(fallback)
unwrap_or(optional, default) == IF optional = None THEN default ELSE Unwrap(optional)
\* A resolve that takes the whole fallback tuple as soon as one element is absent.
EncodingValue_resolve_whole(optional, default) ==
    IF \E i \in 1..Len(optional) : optional[i] = None THEN default
    ELSE [i \in 1..Len(optional) |-> Unwrap(optional[i])]
\* EncodingValue::resolve of a tuple: element idx resolved with element idx
\* of the fallback.
EncodingValue_resolve(optional, default) ==
    [idx \in 1..Len(optional) |-> unwrap_or(optional[idx], default[idx])]
\* EncProperties::resolve and EncPerInstanceProperties::resolve_inst
resolve_props(props, optional) == EncodingValue_resolve(optional, tuple_fallback(props))

\* The component view: get_data(input_data, entity_id) is the entity's
\* component, None when the entity has none.
get_data(input_data, entity_id) == input_data[entity_id]

\* A loop that leaves out the ops whose entity has no component.
RECURSIVE EncodeLoopImpl_run_present(_, _, _, _)
EncodeLoopImpl_run_present(ops, input_data, encoder, written) ==
    IF ops = <<>> THEN written
    ELSE LET data == get_data(input_data, Head(ops).entity_id)
             optional == mapper(encoder.mapper, data)
         IN  EncodeLoopImpl_run_present(Tail(ops), input_data, encoder,
                IF data = None THEN written
                ELSE Append(written, [data |-> resolve_props(encoder.props, optional),
                                      index |-> Head(ops).write_index,
                                      optional |-> optional,
                                      components |-> data]))
\* EncodeLoopImpl::run and EncodeBatchLoopImpl::run: for every op, the
\* components of op.entity_id go through the mapper, the result is resolved
\* and written at op.write_index.
RECURSIVE EncodeLoopImpl_run(_, _, _, _)
EncodeLoopImpl_run(ops, input_data, encoder, written) ==
    IF ops = <<>> THEN written
    ELSE LET data == get_data(input_data, Head(ops).entity_id)
             optional == mapper(encoder.mapper, data)
         IN  EncodeLoopImpl_run(Tail(ops), input_data, encoder,
                Append(written, [data |-> resolve_props(encoder.props, optional),
                                 index |-> Head(ops).write_index,
                                 optional |-> optional,
                                 components |-> data]))

\* EncodeKeyLoopImpl::run: stride.write_at(write_index, mapper(components).as_bytes())
RECURSIVE EncodeKeyLoopImpl_run(_, _, _)
EncodeKeyLoopImpl_run(ops, input_data, written) ==
    IF ops = <<>> THEN written
    ELSE LET data == get_data(input_data, Head(ops).entity_id)
         IN  EncodeKeyLoopImpl_run(Tail(ops), input_data,
                Append(written, [data |-> <<key_mapper(data)>>,
                                 index |-> Head(ops).write_index,
                                 optional |-> <<>>,
                                 components |-> data]))

\* GlobalsEncoder::encode of a SimpleGlobalsEncoder: T::encode(data) is
\* resolved and written once, at index 0.  The system data stands for the
\* component the other kinds read.
GlobalsEncoder_encode(encoder) ==
    LET optional == mapper(encoder.mapper, Some(1))
    IN  << [data |-> resolve_props(encoder.props, optional), index |-> 0,
            optional |-> optional, components |-> None] >>

\* LazyFetch::fetch::<D> compares only the read lists.
fetch_reads_only(lazy_fetch, D) ==
    IF D.reads # lazy_fetch.reads THEN [panic |-> "panic: reads", data |-> None]
    ELSE [panic |-> "", data |-> Some([reads |-> D.reads, writes |-> D.writes])]
\* LazyFetch::fetch::<D>: both assert_eq! come before D::fetch.
fetch(lazy_fetch, D) ==
    IF D.reads # lazy_fetch.reads THEN [panic |-> "panic: reads", data |-> None]
    ELSE IF D.writes # lazy_fetch.writes THEN [panic |-> "panic: writes", data |-> None]
    ELSE [panic |-> "", data |-> Some([reads |-> D.reads, writes |-> D.writes])]

EncoderTypesOf(kind) ==
    IF kind = "key"
    THEN [kind : {kind}, props : {<<>>}, mapper : {<<>>},
          reads : ResourceLists, writes : {<<>>, <<"r1">>}]
    ELSE UNION {[kind : {kind}, props : {props},
                 mapper : [1..Len(props) -> MapperModes],
                 reads : ResourceLists, writes : {<<>>, <<"r1">>}] : props \in PropertyTuples}
RECURSIVE SeqsUpTo(_, _)
SeqsUpTo(S, n) ==
    IF n = 0 THEN {<<>>}
    ELSE SeqsUpTo(S, n - 1) \cup {Append(s, x) : s \in {t \in SeqsUpTo(S, n - 1) : Len(t) = n - 1}, x \in S}

InitEncode ==
    /\ components \in [1..MaxEntities ->  {None, Some(1), Some(2)}]
    /\ \A e \in 1..MaxEntities : e \notin EncodedEntities => components[e] = None
    /\ \E kind \in EncodeKinds : dyn_encoder \in EncoderTypesOf(kind)
    /\ enc_ops \in SeqsUpTo([entity_id : EncodedEntities, write_index : WriteIndices], MaxOps)
    /\ dyn_encoder.kind = "globals" => enc_ops = <<>>
    /\ lazy = None
    /\ fetched = None
    /\ enc_writes = <<>>
    /\ enc_pc = "new"
    /\ MatchIdle
    /\ CoverIdle
    /\ BatchIdle
    /\ BufferIdle
    /\ ResolverIdle
    /\ EnsureIdle
    /\ AccessIdle
    /\ HelperIdle

\* DynEncoder::lazy_fetch of some registered encoder: the LazyFetch carries
\* that encoder's reads and writes.
DynEncoder_lazy_fetch(reads, writes) ==
    /\ lazy = None
    /\ lazy' = Some([reads |-> reads, writes |-> writes])
    /\ UNCHANGED <<components, dyn_encoder, enc_ops, fetched, enc_writes, enc_pc, restOfEncode>>

\* The encode of a dyn encoder: encoder_data.fetch() is evaluated first, then
\* T's encode runs with what was fetched.
Encoded(kind, written) ==
    /\ enc_pc = "new"
    /\ lazy # None
    /\ dyn_encoder.kind = kind
    /\ LET got == fetch(Unwrap(lazy), dyn_encoder)
       IN  /\ fetched' = got.data
           /\ IF got.panic # ""
              THEN enc_pc' = got.panic /\ enc_writes' = enc_writes
              ELSE enc_pc' = "done" /\ enc_writes' = written
    /\ UNCHANGED <<components, dyn_encoder, enc_ops, lazy, restOfEncode>>
DynInstanceEncoder_encode ==
    Encoded("instance", EncodeLoopImpl_run(enc_ops, components, dyn_encoder, <<>>))
DynBatchEncoder_encode ==
    Encoded("batch", EncodeLoopImpl_run(enc_ops, components, dyn_encoder, <<>>))
DynBatchEncoder_encode_batch_keys ==
    Encoded("key", EncodeKeyLoopImpl_run(enc_ops, components, <<>>))
DynGlobalsEncoder_encode ==
    Encoded("globals", GlobalsEncoder_encode(dyn_encoder))

NextEncode ==
    \/ \E reads \in ResourceLists, writes \in {<<>>, <<"r1">>} : DynEncoder_lazy_fetch(reads, writes)
    \/ DynInstanceEncoder_encode
    \/ DynBatchEncoder_encode
    \/ DynBatchEncoder_encode_batch_keys
    \/ DynGlobalsEncoder_encode
SpecEncode == InitEncode /\ [][NextEncode]_vars

(***************************************************************************)
(* Properties of the dynamic encoders                                      *)
(***************************************************************************)
EncodeDone(kinds) == enc_pc = "done" /\ dyn_encoder.kind \in kinds
ListsMatch == /\ Unwrap(lazy).reads = dyn_encoder.reads
              /\ Unwrap(lazy).writes = dyn_encoder.writes

\* C21: fallback resolution is element-wise.  In every write of an instance,
\* batch or globals encoder with properties (P1..Pk), an element the mapper
\* returned as absent carries Pi's fallback and an element it returned as
\* present carries the returned value; an op whose entity has no component
\* still gets its one write, and the encode ends without an error whenever
\* the fetch did not fail.
C21_FallbackIsElementWise ==
    /\ EncodeDone({"instance", "batch", "globals"}) =>
        \A k \in 1..Len(enc_writes) :
            LET w == enc_writes[k]
            IN  /\ Len(w.data) = Len(dyn_encoder.props)
                /\ \A i \in 1..Len(dyn_encoder.props) :
                      /\ w.optional[i] = None => w.data[i] = fallback(dyn_encoder.props[i])
                      /\ w.optional[i] # None => w.data[i] = Unwrap(w.optional[i])
    /\ EncodeDone({"instance", "batch"}) =>
        /\ Len(enc_writes) = Len(enc_ops)
        /\ \A k \in 1..Len(enc_ops) :
              components[enc_ops[k].entity_id] = None =>
                  /\ enc_writes[k].components = None
                  /\ enc_writes[k].index = enc_ops[k].write_index
    /\ (enc_pc # "new" /\ ListsMatch) => enc_pc = "done"
\* An instance encoder of (x, y) wrote the fallback of x next to a present y
\* for an entity without the component.
C21_Witness ==
    /\ EncodeDone({"instance"})
    /\ dyn_encoder.props = <<"x", "y">>
    /\ \E k \in 1..Len(enc_writes) :
          /\ components[enc_ops[k].entity_id] = None
          /\ enc_writes[k].optional = <<None, Some(52)>>
          /\ enc_writes[k].data = <<100, 52>>

\* C25: an encode loop (key, batch or instance pass) calls write exactly once
\* per op, in the order of the ops, at that op's write_index and with the
\* components of that op's entity_id; a globals encoder writes exactly once,
\* at index 0.
C25_OneWritePerOp ==
    /\ EncodeDone({"instance", "batch", "key"}) =>
        /\ Len(enc_writes) = Len(enc_ops)
        /\ \A k \in 1..Len(enc_ops) :
              /\ enc_writes[k].index = enc_ops[k].write_index
              /\ enc_writes[k].components = components[enc_ops[k].entity_id]
    /\ EncodeDone({"globals"}) =>
        /\ Len(enc_writes) = 1
        /\ enc_writes[1].index = 0
\* A batch loop over two ops, the first for an entity without the component
\* and at the higher index, wrote twice in the order of the ops.
C25_Witness ==
    /\ EncodeDone({"batch"})
    /\ Len(enc_ops) = 2
    /\ enc_ops[1].write_index = 1 /\ enc_ops[2].write_index = 0
    /\ components[enc_ops[1].entity_id] = None
    /\ components[enc_ops[2].entity_id] = Some(2)
    /\ enc_writes[1].index = 1 /\ enc_writes[2].index = 0
    /\ enc_writes[2].components = Some(2)

\* C26: LazyFetch::fetch returns system data only when the read list and the
\* write list of the requested data equal the lists the LazyFetch carries
\* from registration; on a mismatch the encode fails before anything is
\* fetched or written, so what an encoder obtains was declared.
C26_FetchOnlyWhatWasDeclared ==
    /\ fetched # None =>
        /\ ListsMatch
        /\ Unwrap(fetched).reads = Unwrap(lazy).reads
        /\ Unwrap(fetched).writes = Unwrap(lazy).writes
    /\ (enc_pc # "new" /\ ~ListsMatch) =>
        /\ enc_pc \in {"panic: reads", "panic: writes"}
        /\ fetched = None
        /\ enc_writes = <<>>
\* An encoder that reads r2 and writes r1 fetched them through a LazyFetch
\* that declares the same.
C26_Witness ==
    /\ enc_pc = "done"
    /\ fetched = Some([reads |-> <<"r2">>, writes |-> <<"r1">>])
    /\ Unwrap(lazy) = [reads |-> <<"r2">>, writes |-> <<"r1">>]

(***************************************************************************)
(* Properties of a frame of the encoding systems                           *)
(***************************************************************************)
\* The batching of the system (steps 1 and 2 of run) came to its end.
Batched(sys) == sys.pc \notin {"new", "panic: from_sizes", "panic: debug_assert"}
EntityIds(ops) == [k \in 1..Len(ops) |-> ops[k].entity_id]

\* C29: on every run of a pipeline encoding system, the first one after its
\* construction included, encoder_instance_writes ends up holding exactly one
\* op per entity of the pipeline, in the order of the entities, and nothing
\* from an earlier run.
C29_InstanceWritesOnePerEntity ==
    \A k \in 1..Len(systems) :
        LET sys == systems[k]
        IN  Batched(sys) =>
                /\ sys.encoder_instance_writes # None
                /\ EntityIds(Unwrap(sys.encoder_instance_writes)) = sys.pipeline.entities

\* The invocations a frame of the system owes: every globals encoder once,
\* then every batch encoder once over encoder_batch_writes, then every
\* instance encoder once over encoder_instance_writes.
Invocations(kind, ops) ==
    [i \in 1..Len(PipelineEncoders[kind]) |-> [kind |-> kind, encoder |-> i, ops |-> ops]]
\* C22: in one frame of a pipeline every globals encoder is invoked exactly
\* once, every batch encoder exactly once over encoder_batch_writes and every
\* instance encoder exactly once over encoder_instance_writes; the globals
\* encodes come first, the instance encodes last, and encoders of one kind
\* run in registration order.
C22_EveryEncoderOnceInOrder ==
    \A k \in 1..Len(systems) :
        LET sys == systems[k]
        IN  Batched(sys) =>
                /\ sys.encoder_instance_writes # None
                /\ [i \in 1..Len(sys.invoked) |->
                       [kind |-> sys.invoked[i].kind, encoder |-> sys.invoked[i].encoder,
                        ops |-> sys.invoked[i].ops]]
                     = Invocations("globals", <<>>)
                       \o Invocations("batch", sys.encoder_batch_writes)
                       \o Invocations("instance", Unwrap(sys.encoder_instance_writes))

\* C23: after a pipeline's frame encode the published descriptor lists are
\* complete: globals_descriptors holds one descriptor per globals descriptor
\* slot, the one its owning encoder emitted, and batch_descriptors holds one
\* descriptor per batch and batch descriptor slot.
C23_DescriptorListsComplete ==
    \A k \in 1..Len(systems) :
        LET sys == systems[k]
        IN  Batched(sys) =>
                /\ sys.pipeline.globals_descriptors = <<"descriptor of g">>
                /\ Len(sys.pipeline.batch_descriptors) =
                       Len(sys.encoder_batch_writes) * Len(PipelineLayout.batch_descriptors)

\* The validity flag of a pipeline's published buffer state is there and
\* says invalid.
MarkedInvalid(pipeline) == "valid" \in DOMAIN pipeline /\ ~pipeline.valid
\* C24: a fatal error raised while one pipeline is encoded aborts the encode
\* of that pipeline only: the pipeline is marked invalid through its validity
\* flag, and the frame is not abandoned, so that the other pipelines of the
\* frame still run their encode.
C24_FatalErrorAbortsOnlyItsPipeline ==
    \A k \in 1..Len(systems) :
        Panicked(systems[k]) =>
            /\ MarkedInvalid(systems[k].pipeline)
            /\ group_pc # "panicked"

\* C27: batching n entities runs exactly ceil(n / BATCH_ROUND_SIZE) rounds;
\* round r takes the next min(BATCH_ROUND_SIZE, n - r * BATCH_ROUND_SIZE)
\* entities of the iterator, with the local write indices 0..count-1, so that
\* every entity is consumed in exactly one round and the iterator is drained
\* after the last one.
C27_RoundsCoverEveryEntityOnce ==
    \A k \in 1..Len(systems) :
        LET sys == systems[k]
            n == Len(sys.pipeline.entities)
            total == (n + BATCH_ROUND_SIZE - 1) \div BATCH_ROUND_SIZE
        IN  sys.pc # "new" =>
                /\ Len(sys.rounds) = total
                /\ \A r \in 1..Len(sys.rounds) :
                      sys.rounds[r].ops =
                          [index \in 1..Min(BATCH_ROUND_SIZE, n - (r - 1) * BATCH_ROUND_SIZE) |->
                              OpEncode(sys.pipeline.entities[(r - 1) * BATCH_ROUND_SIZE + index],
                                       index - 1)]
                /\ sys.pc # "panic: not drained"

BatchedAlone(entities) ==
    evaluate_batches(<<[entities |-> entities]>>, batch_encoders, <<>>, {}, <<>>)
\* C30: when one evaluation batches several pipelines, the batch_per_entity,
\* the batch_offsets and the encoder_batch_writes of each of them are those
\* the pipeline gets when it is batched alone, whatever the pipelines before
\* it produced.
C30_BatchingIndependentOfEarlierPipelines ==
    \A k \in 1..Len(pipelines) :
        LET alone == BatchedAlone(pipelines[k].entities)
        IN  /\ alone.panic = ""
            /\ pipelines[k].batch_per_entity = alone.evaluated[1].batch_per_entity
            /\ pipelines[k].encoder_batch_writes = alone.evaluated[1].encoder_batch_writes
            /\ \E counts \in BatchCounts(alone.evaluated[1].batches_by_key) :
                  pipelines[k].batch_offsets = ExclusivePrefixSum(counts)

(***************************************************************************)
(* Properties of the batching rounds of a system                           *)
(***************************************************************************)
\* The number of entities of the r-th round (r from 1) of a pipeline of n.
IterCount(n, r) == Min(BATCH_ROUND_SIZE, n - (r - 1) * BATCH_ROUND_SIZE)
\* C31: in every batching round and for the key stride of every batch
\* encoder, the length of encoder_key_writes and the contiguous_count of the
\* stride both equal iter_count, the number of entities of the round.
C31_KeyWritesAndStrideMatchIterCount ==
    \A k \in 1..Len(systems) :
        LET sys == systems[k]
            n == Len(sys.pipeline.entities)
        IN  \A r \in 1..Len(sys.rounds) :
                \A i \in 1..Len(sys.rounds[r].strides) :
                    /\ Len(sys.rounds[r].ops) = IterCount(n, r)
                    /\ sys.rounds[r].strides[i].contiguous_count = IterCount(n, r)

\* The batch encoders of the pipelines contribute no key byte.
ZeroKeySize == Sum([i \in 1..Len(batch_encoders) |-> batch_key_size(batch_encoders[i])]) = 0
\* C36: a pipeline whose batch encoders have a total key size of zero (no
\* batch encoder, or zero-sized keys only) and that has at least one entity
\* completes its batching without a failure and assigns every entity to the
\* one batch 0.
C36_ZeroKeySizeMakesOneBatch ==
    \A k \in 1..Len(systems) :
        LET sys == systems[k]
        IN  (sys.pc # "new" /\ ZeroKeySize /\ sys.pipeline.entities # <<>>) =>
                /\ Batched(sys)
                /\ sys.batch_per_entity = [i \in 1..Len(sys.pipeline.entities) |-> 0]

(***************************************************************************)
(* Properties of the construction of a buffer builder                      *)
(***************************************************************************)
\* C37: EncodeBufferBuilder::create succeeds for every buffer layout with a
\* positive stride and a byte buffer whose length is a multiple of the
\* stride, whatever the descriptor layout is: also for a descriptor layout
\* without slots and an empty descriptor buffer, as the instances pass
\* passes them.
C37_CreateSucceedsForAnyDescriptorLayout ==
    (/\ buf_pc # "new"
     /\ buffer_layout.padded_size > 0
     /\ Len(raw_buffer) % buffer_layout.padded_size = 0) => Created

(***************************************************************************)
(* Properties of the resolutions of a resolve pass                         *)
(***************************************************************************)
\* The entities a ReuseLayout is returned for: a later entity of a key whose
\* first entity got a NewLayout in the pass.
Reusers == {e \in Anchored : FirstOfKey(e) # e /\ FirstOfKey(e) \in Openers}
\* C34: every ReuseLayout{index} of a resolve pass refers to the pipeline the
\* NewLayout of the same key created in that pass, in every frame: the
\* entity is added to the pipeline that the first entity of its key opened,
\* and the pass never fails with "ReuseLayout index is incorrect".
C34_ReuseLayoutIndexesItsPipeline ==
    /\ r_pc = "ok"
    /\ passes > 0 =>
          \A e \in Reusers :
              \E i \in 1..Len(r_pipelines) :
                  /\ r_pipelines[i].entities[1].id = FirstOfKey(e)
                  /\ \E j \in 2..Len(r_pipelines[i].entities) : r_pipelines[i].entities[j].id = e
                  /\ \A h \in 1..Len(r_pipelines) :
                        h # i => \A j \in 1..Len(r_pipelines[h].entities) :
                                     r_pipelines[h].entities[j].id # e
\* In the second frame entity 3 reused the second pipeline, opened by entity
\* 2, and entity 1 opened the first.
C34_Witness ==
    /\ passes = 2
    /\ r_pc = "ok"
    /\ Anchored = Entities
    /\ Anchor(1).key = "k2" /\ Anchor(2).key = "k1" /\ Anchor(3).key = "k1"
    /\ Len(r_pipelines) = 2
    /\ IdsOf(r_pipelines[1]) = <<1>>
    /\ IdsOf(r_pipelines[2]) = <<2, 3>>

\* C35: within one resolve pass the inner resolver's resolve function is
\* invoked at most once per layout key, also for a key it returned nothing
\* for: the later entities of such a key are skipped without another call.
C35_InnerResolveOncePerKey ==
    /\ \A i, j \in 1..Len(inner_calls) : i # j => inner_calls[i].key # inner_calls[j].key
    /\ passes > 0 =>
          \A e \in Anchored : \E i \in 1..Len(inner_calls) :
              /\ inner_calls[i].key = Anchor(e).key
              /\ inner_calls[i].layout = Anchor(FirstOfKey(e)).layout
\* The inner resolver returned nothing for k1, the key of the entities 1 and
\* 2: it was asked once for k1 and once for k2, and entity 2, for which it
\* would have returned a layout, is in no pipeline.
C35_Witness ==
    /\ passes = 1
    /\ Anchored = Entities
    /\ Anchor(1).key = "k1" /\ Anchor(1).layout = None
    /\ Anchor(2).key = "k1" /\ Anchor(2).layout = Some("A")
    /\ Anchor(3).key = "k2" /\ Anchor(3).layout = Some("B")
    /\ inner_calls = << [key |-> "k1", layout |-> None], [key |-> "k2", layout |-> Some("B")] >>
    /\ Len(r_pipelines) = 1 /\ IdsOf(r_pipelines[1]) = <<3>>

(***************************************************************************)
(* SpecEntities: the entity set of an EncoderPipeline (renderable.rs)      *)
(***************************************************************************)
\* The largest entity id explored.  entities_count is a u32; a BitSet holds
\* at most 2^24 ids, so the counter cannot leave its range.
MaxIndex == 6
Indices == 0..MaxIndex

\* hibitset's BitSet::add returns true when the id was already in the set;
\* BitSet::remove returns true when the id was in the set and is removed.
BitSet_add(set, id) == [set |-> set \cup {id}, returned |-> id \in set]
BitSet_remove(set, id) == [set |-> set \ {id}, returned |-> id \in set]

\* An add_id that counts every call.
add_id_always(pipeline, id) ==
    [pipeline EXCEPT !.entities = BitSet_add(@, id).set, !.entities_count = @ + 1]
\* EncoderPipeline::add_id
add_id(pipeline, id) ==
    LET added == BitSet_add(pipeline.entities, id)
    IN  [pipeline EXCEPT !.entities = added.set,
                         !.entities_count = IF ~added.returned THEN @ + 1 ELSE @]
\* EncoderPipeline::remove_id
remove_id(pipeline, id) ==
    LET removed == BitSet_remove(pipeline.entities, id)
    IN  [pipeline EXCEPT !.entities = removed.set,
                         !.entities_count = IF removed.returned THEN @ - 1 ELSE @]
\* EncoderPipeline::clear
EncoderPipeline_clear(pipeline) == [pipeline EXCEPT !.entities = {}, !.entities_count = 0]

\* EncoderPipeline::new: no entity.
InitEntities ==
    /\ encoder_pipeline = [entities |-> {}, entities_count |-> 0, last |-> None]
    /\ BatchIdIdle
    /\ BitSetIdle
    /\ SetCoverIdle
    /\ MatchIdle
    /\ CoverIdle
    /\ BatchIdle
    /\ BufferIdle
    /\ ResolverIdle
    /\ EnsureIdle
    /\ AccessIdle
    /\ EncodeIdle

restOfEntities == <<id_pass, bitsets, iterated, contained, groups, keys_to_cover,
                    solution, restOfHelper>>
\* A call on the pipeline; `present` notes whether the id was in the set.
EncoderPipeline_add_id(id) ==
    /\ encoder_pipeline' =
           [add_id(encoder_pipeline, id) EXCEPT
               !.last = Some([op |-> "add_id", id |-> id,
                              present |-> id \in encoder_pipeline.entities])]
    /\ UNCHANGED restOfEntities
EncoderPipeline_remove_id(id) ==
    /\ encoder_pipeline' =
           [remove_id(encoder_pipeline, id) EXCEPT
               !.last = Some([op |-> "remove_id", id |-> id,
                              present |-> id \in encoder_pipeline.entities])]
    /\ UNCHANGED restOfEntities
EncoderPipeline_clear_all ==
    /\ encoder_pipeline' =
           [EncoderPipeline_clear(encoder_pipeline) EXCEPT
               !.last = Some([op |-> "clear", id |-> 0, present |-> FALSE])]
    /\ UNCHANGED restOfEntities

NextEntities ==
    \/ \E id \in Indices : EncoderPipeline_add_id(id)
    \/ \E id \in Indices : EncoderPipeline_remove_id(id)
    \/ EncoderPipeline_clear_all
SpecEntities == InitEntities /\ [][NextEntities]_vars

\* C33: after any sequence of add_id, remove_id and clear calls on an
\* EncoderPipeline, also when an id that is present is added and an id that
\* is absent is removed, entities_count is the number of ids in the entities
\* bitset.
C33_EntitiesCountIsCardinality ==
    encoder_pipeline.entities_count = Cardinality(encoder_pipeline.entities)
\* The id 3 was added to a pipeline that already held 3 and 5.
C33_Witness ==
    /\ encoder_pipeline.last = Some([op |-> "add_id", id |-> 3, present |-> TRUE])
    /\ encoder_pipeline.entities = {3, 5}
    /\ encoder_pipeline.entities_count = 2

(***************************************************************************)
(* SpecBitSet: VecBitSet (bitset.rs)                                       *)
(***************************************************************************)
\* hibitset keeps four layers of words; a word has 2^LayerBits bits (64 in
\* the program, 2 in the model), so the ids are 0..WordBits^4 - 1.  A word is
\* the set of the positions of its one bits: 0 is {} and & is \cap.
LayerBits == 1
WordBits == 2 ^ LayerBits
BitSetIds == 0..(WordBits ^ 4 - 1)
\* The bit of an id in its word of layer n, and the index of that word.
BitOf(id, n) == (id \div (WordBits ^ n)) % WordBits
WordOf(id, n) == id \div (WordBits ^ (n + 1))

\* BitSetLike for a BitSet: layer 0 holds the ids; a bit of a higher layer is
\* set when the word below it is not 0.
layer0(set, i) == {BitOf(id, 0) : id \in {x \in set : WordOf(x, 0) = i}}
layer1(set, i) == {BitOf(id, 1) : id \in {x \in set : WordOf(x, 1) = i}}
layer2(set, i) == {BitOf(id, 2) : id \in {x \in set : WordOf(x, 2) = i}}
layer3(set) == {BitOf(id, 3) : id \in set}

\* self.0.iter().fold(init, |x, s| x & s.layerN(..)) over the words of the
\* constituents.
RECURSIVE fold_and(_, _)
fold_and(x, words) ==
    IF words = <<>> THEN x ELSE fold_and(x \cap Head(words), Tail(words))
\* BitSetLike for VecBitSet: every fold starts from 0.
VecBitSet_layer3(sets) == fold_and({}, [k \in 1..Len(sets) |-> layer3(sets[k])])
VecBitSet_layer2(sets, i) == fold_and({}, [k \in 1..Len(sets) |-> layer2(sets[k], i)])
VecBitSet_layer1(sets, i) == fold_and({}, [k \in 1..Len(sets) |-> layer1(sets[k], i)])
VecBitSet_layer0(sets, i) == fold_and({}, [k \in 1..Len(sets) |-> layer0(sets[k], i)])
\* self.0.iter().fold(true, |x, s| x && s.contains(i))
VecBitSet_contains(sets, i) == \A k \in 1..Len(sets) : i \in sets[k]

\* hibitset's BitIter over a BitSetLike: it descends from the bits of layer3
\* through the words of layer2 and layer1 to the bits of layer0.
VecBitSet_iter(sets) ==
    {id \in BitSetIds :
        /\ BitOf(id, 3) \in VecBitSet_layer3(sets)
        /\ BitOf(id, 2) \in VecBitSet_layer2(sets, WordOf(id, 2))
        /\ BitOf(id, 1) \in VecBitSet_layer1(sets, WordOf(id, 1))
        /\ BitOf(id, 0) \in VecBitSet_layer0(sets, WordOf(id, 0))}

\* The constituent bitsets explored, and the longest VecBitSet; a VecBitSet
\* has at least one constituent.
ConstituentIds == {0, 1, 6, 15}
MaxBitSets == 2
InitBitSet ==
    /\ bitsets \in UNION {[1..n -> SUBSET ConstituentIds] : n \in 1..MaxBitSets}
    /\ iterated = None
    /\ contained = None
    /\ BatchIdIdle
    /\ EntitiesIdle
    /\ SetCoverIdle
    /\ MatchIdle
    /\ CoverIdle
    /\ BatchIdle
    /\ BufferIdle
    /\ ResolverIdle
    /\ EnsureIdle
    /\ AccessIdle
    /\ EncodeIdle

restOfBitSet == <<id_pass, encoder_pipeline, groups, keys_to_cover, solution,
                  restOfHelper>>
\* (&vec_bitset).iter().collect()
BitSetLike_iter ==
    /\ iterated' = Some(VecBitSet_iter(bitsets))
    /\ UNCHANGED <<bitsets, contained, restOfBitSet>>
\* vec_bitset.contains(i): the last probe and what it returned.
BitSetLike_contains(i) ==
    /\ contained' = Some([id |-> i, returned |-> VecBitSet_contains(bitsets, i)])
    /\ UNCHANGED <<bitsets, iterated, restOfBitSet>>
NextBitSet ==
    \/ BitSetLike_iter
    \/ \E i \in BitSetIds : BitSetLike_contains(i)
SpecBitSet == InitBitSet /\ [][NextBitSet]_vars

\* The bitwise AND of the words of the constituents.
AndOfWords(words) == {bit \in 0..(WordBits - 1) : \A k \in 1..Len(words) : bit \in words[k]}
\* C32: a VecBitSet is the intersection of its constituents: every word of
\* every layer an iteration reads is the bitwise AND of the constituents'
\* words, and the iteration yields exactly the ids contains() is true for.
C32_VecBitSetIsIntersection ==
    iterated # None =>
        /\ bitsets # <<>> =>
              /\ VecBitSet_layer3(bitsets)
                    = AndOfWords([k \in 1..Len(bitsets) |-> layer3(bitsets[k])])
              /\ \A id \in BitSetIds :
                    /\ VecBitSet_layer2(bitsets, WordOf(id, 2))
                          = AndOfWords([k \in 1..Len(bitsets) |->
                                           layer2(bitsets[k], WordOf(id, 2))])
                    /\ VecBitSet_layer1(bitsets, WordOf(id, 1))
                          = AndOfWords([k \in 1..Len(bitsets) |->
                                           layer1(bitsets[k], WordOf(id, 1))])
                    /\ VecBitSet_layer0(bitsets, WordOf(id, 0))
                          = AndOfWords([k \in 1..Len(bitsets) |->
                                           layer0(bitsets[k], WordOf(id, 0))])
        /\ Unwrap(iterated) = {id \in BitSetIds : VecBitSet_contains(bitsets, id)}

\* ---------------------------------------------------------------------------
\* The batch-id counter of one batching pass (renderable.rs 532-587,
\* query.rs 83-134), one key chunk at a time.  The counter is a u16; the
\* chunk loop is explored with a counter of BatchIdModulus values and with
\* one more distinct key than the counter has values.
BatchIdModulus == 4
MaxChunks == 6
BatchKeys == {<<k>> : k \in 0..BatchIdModulus}

InitBatchIds ==
    /\ MatchIdle /\ CoverIdle /\ BatchIdle /\ ExtIdle
    /\ \E overflow_checks \in BOOLEAN :
          id_pass = [batches_by_key |-> {}, batch_per_entity |-> <<>>,
                     encoder_batch_writes |-> <<>>, next_batch_id |-> 0, panic |-> "",
                     overflow_checks |-> overflow_checks]

restOfBatchIds == <<bitsets, iterated, contained, encoder_pipeline, groups, keys_to_cover, solution, restOfHelper>>

\* One iteration of `for (index, chunk) in batch_keys_buffer.chunks_exact(..)`.
collect_chunk(chunk) ==
    /\ id_pass.panic = ""
    /\ Len(id_pass.batch_per_entity) < MaxChunks
    /\ id_pass' = CollectBatches(<<chunk>>, 1,
                                 <<OpEncode(Len(id_pass.batch_per_entity), 0)>>, id_pass,
                                 BatchIdModulus, id_pass.overflow_checks)
    /\ UNCHANGED restOfBatchIds
NextBatchIds == \E chunk \in BatchKeys : collect_chunk(chunk)
SpecBatchIds == InitBatchIds /\ [][NextBatchIds]_vars

\* C38: the batch-id counter never wraps around within a batching pass: the
\* pass does not end in an overflow panic, and no id already assigned to one
\* key in the pass is assigned again to a different key.
C38_BatchIdCounterNeverWraps ==
    /\ id_pass.panic = ""
    /\ \A one, other \in id_pass.batches_by_key :
          one.key # other.key => one.batch_id # other.batch_id

\* ---------------------------------------------------------------------------
\* greedy_set_cover and purge_out_of_set (mod.rs 148-188).  A group is the
\* set of the keys of one Vec<K>; the groups are the keys of a hash map, so
\* they are pairwise distinct and come in any order.
MaxGroups == 3
SetCoverKeys == {"a", "b", "c"}

\* Vec::remove(index), with the indices of the Vec counted from 1.
VecRemove(vec, index) == SubSeq(vec, 1, index - 1) \o SubSeq(vec, index + 1, Len(vec))

\* for group_idx in out_of_set.collect::<Vec<_>>() { groups.remove(group_idx); }
\* Vec::remove panics when the index is not below the length.
RECURSIVE RemoveEach(_, _, _)
RemoveEach(vec, out_of_set, k) ==
    IF k > Len(out_of_set) THEN [groups |-> vec, panic |-> ""]
    ELSE IF out_of_set[k] > Len(vec) THEN [groups |-> vec, panic |-> "removal index out of bounds"]
    ELSE RemoveEach(VecRemove(vec, out_of_set[k]), out_of_set, k + 1)

\* The indices of the groups holding a key outside the set, ascending: they
\* are collected before the first removal.
OutOfSet(vec, keys) ==
    SelectSeq([i \in 1..Len(vec) |-> i], LAMBDA i : ~(vec[i] \subseteq keys))

purge_out_of_set(vec, keys) == RemoveEach(vec, OutOfSet(vec, keys), 1)

\* Iterator::max_by_key returns the last of several maximal elements.
max_by_key(vec) ==
    IF vec = <<>> THEN None
    ELSE Some(CHOOSE i \in 1..Len(vec) : \A j \in 1..Len(vec) :
                 /\ Cardinality(vec[j]) <= Cardinality(vec[i])
                 /\ Cardinality(vec[j]) = Cardinality(vec[i]) => j <= i)

\* while !keys_to_cover.is_empty() { .. }; acc holds result, the outcome and
\* the purges made so far.
RECURSIVE greedy_loop(_, _, _)
greedy_loop(vec, keys, acc) ==
    IF keys = {} THEN [acc EXCEPT !.tag = "Ok"]
    ELSE LET purged == purge_out_of_set(vec, keys)
             logged == [acc EXCEPT !.purges = Append(@, [before |-> vec, keys |-> keys,
                                                          after |-> purged.groups])]
         IN  IF purged.panic # "" THEN [logged EXCEPT !.tag = "panic: " \o purged.panic]
             ELSE LET i == max_by_key(purged.groups)
                  IN  IF IsSome(i)
                      THEN LET best == purged.groups[Unwrap(i)]
                           IN  greedy_loop(VecRemove(purged.groups, Unwrap(i)), keys \ best,
                                           [logged EXCEPT !.result = Append(@, best)])
                      ELSE [logged EXCEPT !.tag = "Err"]

greedy_set_cover(vec, keys) == greedy_loop(vec, keys, [tag |-> "", result |-> <<>>, purges |-> <<>>])

InitSetCover ==
    /\ MatchIdle /\ CoverIdle /\ BatchIdle
    /\ BufferIdle /\ ResolverIdle /\ EnsureIdle /\ AccessIdle /\ EncodeIdle
    /\ BatchIdIdle /\ BitSetIdle /\ EntitiesIdle
    /\ groups \in DupFreeSeqs(SUBSET SetCoverKeys, MaxGroups)
    /\ keys_to_cover \in SUBSET SetCoverKeys
    /\ solution = None

restOfSetCover == <<id_pass, bitsets, iterated, contained, encoder_pipeline, restOfHelper>>

\* WorldEncoder::calculate_query_encoder calls greedy_set_cover(prop_groups, props_set).
calculate_query_encoder ==
    /\ solution = None
    /\ solution' = Some(greedy_set_cover(groups, keys_to_cover))
    /\ UNCHANGED <<groups, keys_to_cover, restOfSetCover>>
NextSetCover == calculate_query_encoder
SpecSetCover == InitSetCover /\ [][NextSetCover]_vars

\* C39: greedy_set_cover returns Ok or Err; whenever it returns Ok its groups
\* are each a subset of the requested key set, pairwise disjoint, and their
\* union is the requested key set; and every purge_out_of_set it made left
\* exactly the groups all of whose keys were still uncovered, in their order.
C39_OkIsAnExactCover ==
    solution # None =>
        LET returned == Unwrap(solution)
        IN  /\ returned.tag \in {"Ok", "Err"}
            /\ returned.tag = "Ok" =>
                  /\ \A i \in 1..Len(returned.result) : returned.result[i] \subseteq keys_to_cover
                  /\ \A i, j \in 1..Len(returned.result) :
                        i # j => returned.result[i] \cap returned.result[j] = {}
                  /\ UNION Range(returned.result) = keys_to_cover
            /\ \A p \in 1..Len(returned.purges) :
                  returned.purges[p].after
                      = SelectSeq(returned.purges[p].before,
                                  LAMBDA group : group \subseteq returned.purges[p].keys)
====
